---- MODULE Spec2Model ----
(***************************************************************************)
(* Model of the two tutorial notebooks of DC2-analysis:                    *)
(*   tutorials/dm_butler_lensing_cuts.ipynb        read_tract, the baseline*)
(*       NaN mask and the weak-lensing cut mask;                           *)
(*   tutorials/extragalactic_gcr_photoz_catalogs.ipynb  the bright-sample  *)
(*       filter and the summed p(z) of the tomographic bins.               *)
(*                                                                         *)
(* Floating point values are modelled by their IEEE class (NaN, +/-inf,    *)
(* finite); a finite value is an exact rational n/d, or the square root of *)
(* one (the result of hypot).  Rounding of finite results is not modelled. *)
(* Zero has no sign in the model (numpy's -0.0 is not represented).        *)
(***************************************************************************)
EXTENDS Integers, Sequences, FiniteSets, TLC

(***************************************************************************)
(* Bounds of the model.                                                    *)
(***************************************************************************)
MaxPatches == 2
MaxPatchRows == 1
MaxRows == 3
GridLen == 3

(***************************************************************************)
(* IEEE floating point values.                                             *)
(***************************************************************************)
RECURSIVE GCD(_, _)
GCD(a, b) == IF b = 0 THEN a ELSE GCD(b, a % b)

Abs(x) == IF x < 0 THEN -x ELSE x

NaN == [k |-> "nan", n |-> 0, d |-> 1]
PInf == [k |-> "inf", n |-> 1, d |-> 1]
NInf == [k |-> "inf", n |-> -1, d |-> 1]

\* the finite value n/d (d # 0), in lowest terms with a positive denominator
Fin(n, d) ==
    LET g == GCD(Abs(n), Abs(d))
        s == IF d < 0 THEN -1 ELSE 1
    IN  [k |-> "fin", n |-> (s * n) \div g, d |-> (s * d) \div g]

\* the finite value sqrt(n/d), n/d >= 0
Root(n, d) ==
    LET g == GCD(Abs(n), Abs(d))
    IN  [k |-> "root", n |-> n \div g, d |-> d \div g]

Num(n) == Fin(n, 1)

isnan(x) == x.k = "nan"
isinf(x) == x.k = "inf"
Sign(x) == IF x.n > 0 THEN 1 ELSE IF x.n < 0 THEN -1 ELSE 0

\* x < y on finite values ("fin" or "root")
FinLt(x, y) ==
    CASE x.k = "fin" /\ y.k = "fin" -> x.n * y.d < y.n * x.d
      [] x.k = "root" /\ y.k = "fin" ->
            y.n > 0 /\ x.n * y.d * y.d < y.n * y.n * x.d
      [] x.k = "fin" /\ y.k = "root" ->
            x.n < 0 \/ x.n * x.n * y.d < y.n * x.d * x.d
      [] OTHER -> x.n * y.d < y.n * x.d

\* the comparisons of numpy and pandas: every comparison with NaN is false
LtF(x, y) ==
    CASE isnan(x) \/ isnan(y) -> FALSE
      [] isinf(x) /\ isinf(y) -> x.n < y.n
      [] isinf(x) -> x.n < 0
      [] isinf(y) -> y.n > 0
      [] OTHER -> FinLt(x, y)

EqF(x, y) ==
    CASE isnan(x) \/ isnan(y) -> FALSE
      [] isinf(x) \/ isinf(y) -> isinf(x) /\ isinf(y) /\ x.n = y.n
      [] OTHER -> ~FinLt(x, y) /\ ~FinLt(y, x)

GtF(x, y) == LtF(y, x)
LeF(x, y) == LtF(x, y) \/ EqF(x, y)
GeF(x, y) == LtF(y, x) \/ EqF(x, y)

\* numpy's true division of float64 arrays, one element: x / y
DivF(x, y) ==
    CASE isnan(x) \/ isnan(y) -> NaN
      [] isinf(x) /\ isinf(y) -> NaN
      [] isinf(x) -> IF Sign(x) * Sign(y) < 0 THEN NInf ELSE PInf
      [] isinf(y) -> Num(0)
      [] y.n = 0 /\ x.n = 0 -> NaN
      [] y.n = 0 -> IF x.n > 0 THEN PInf ELSE NInf
      [] OTHER -> Fin(x.n * y.d, x.d * y.n)

\* numpy.hypot, one element: an infinite argument wins over a NaN (C99);
\* a finite result is kept as the root of the sum of squares
HypotF(x, y) ==
    CASE isinf(x) \/ isinf(y) -> PInf
      [] isnan(x) \/ isnan(y) -> NaN
      [] OTHER -> Root(x.n * x.n * y.d * y.d + y.n * y.n * x.d * x.d,
                       x.d * x.d * y.d * y.d)

(***************************************************************************)
(* Catalog rows.  A raw row is one object of a patch: its row of the       *)
(* deepCoadd_ref (merged) catalog, its row of the deepCoadd_forced_src     *)
(* catalog and the pair the photoCalib returns for it.                     *)
(***************************************************************************)
FlagColumns ==
    << "deblend_skipped",
       "base_PixelFlags_flag_edge",
       "base_PixelFlags_flag_interpolatedCenter",
       "base_PixelFlags_flag_saturatedCenter",
       "base_PixelFlags_flag_crCenter",
       "base_PixelFlags_flag_bad",
       "base_PixelFlags_flag_suspectCenter",
       "base_PixelFlags_flag_clipped",
       "ext_shapeHSM_HsmShapeRegauss_flag" >>

\* an object that passes every cut
GoodRaw ==
    [ detect_isPrimary |-> TRUE,
      deblend_skipped |-> FALSE,
      base_PixelFlags_flag_edge |-> FALSE,
      base_PixelFlags_flag_interpolatedCenter |-> FALSE,
      base_PixelFlags_flag_saturatedCenter |-> FALSE,
      base_PixelFlags_flag_crCenter |-> FALSE,
      base_PixelFlags_flag_bad |-> FALSE,
      base_PixelFlags_flag_suspectCenter |-> FALSE,
      base_PixelFlags_flag_clipped |-> FALSE,
      ext_shapeHSM_HsmShapeRegauss_flag |-> FALSE,
      ext_shapeHSM_HsmShapeRegauss_resolution |-> Fin(1, 2),
      ext_shapeHSM_HsmShapeRegauss_e1 |-> Fin(3, 5),
      ext_shapeHSM_HsmShapeRegauss_e2 |-> Fin(4, 5),
      ext_shapeHSM_HsmShapeRegauss_sigma |-> Fin(3, 10),
      base_Blendedness_abs |-> Fin(1, 10),
      modelfit_CModel_instFlux |-> Num(20),
      modelfit_CModel_instFluxErr |-> Num(1),
      mag |-> Num(24),
      mag_err |-> Fin(1, 10) ]

ForcedColumns == {"modelfit_CModel_instFlux", "modelfit_CModel_instFluxErr"}
CalibColumns == {"mag", "mag_err"}
MergedColumns == (DOMAIN GoodRaw \ ForcedColumns) \ CalibColumns

\* 10**(-0.375), the blendedness threshold, to four decimals
BlendednessCut == Fin(4217, 10000)

\* the values a raw row takes in one column, all other columns as in GoodRaw
Deviations ==
    [c \in {FlagColumns[j] : j \in DOMAIN FlagColumns} |-> {TRUE}]
    @@ [ detect_isPrimary |-> {FALSE},
         ext_shapeHSM_HsmShapeRegauss_resolution |-> {NaN, Fin(3, 10), Fin(1, 5)},
         ext_shapeHSM_HsmShapeRegauss_e1 |-> {NaN, Num(2)},
         ext_shapeHSM_HsmShapeRegauss_e2 |-> {NaN, PInf},
         ext_shapeHSM_HsmShapeRegauss_sigma |-> {NaN, Fin(2, 5), Fin(1, 2)},
         base_Blendedness_abs |-> {NaN, BlendednessCut, Fin(1, 2)},
         modelfit_CModel_instFlux |-> {NaN, Num(10), Num(5)},
         modelfit_CModel_instFluxErr |-> {NaN, Num(0)},
         mag |-> {NaN, Fin(49, 2), Num(25)},
         mag_err |-> {} ]

\* rows that differ from GoodRaw in two columns
Specials ==
    { [GoodRaw EXCEPT !.modelfit_CModel_instFlux = Num(0),
                      !.modelfit_CModel_instFluxErr = Num(0)],
      [GoodRaw EXCEPT !.modelfit_CModel_instFlux = Num(-5),
                      !.modelfit_CModel_instFluxErr = Num(0)],
      [GoodRaw EXCEPT !.ext_shapeHSM_HsmShapeRegauss_e1 = NaN,
                      !.ext_shapeHSM_HsmShapeRegauss_e2 = PInf],
      [GoodRaw EXCEPT !.ext_shapeHSM_HsmShapeRegauss_e1 = Num(2),
                      !.ext_shapeHSM_HsmShapeRegauss_e2 = Num(0)] }

RawRows ==
    {GoodRaw}
    \cup {[GoodRaw EXCEPT ![c] = v] : <<c, v>> \in
            UNION {{<<c, v>> : v \in Deviations[c]} : c \in DOMAIN Deviations}}
    \cup Specials

Restrict(r, cols) == [c \in cols |-> r[c]]

\* Python's None
None == <<>>

\* a name not yet assigned
Unset == [shape |-> "unset"]

\* sequences over S of length at most n
SeqsUpTo(S, n) == UNION {[1..m -> S] : m \in 0..n}

VARIABLES
    \* dm_butler_lensing_cuts.ipynb, read_tract
    tract,        \* the patches of the tract and what the butler holds for each
    num_patches,  \* the argument: <<>> for None, <<n>> for the integer n
    pc,           \* position in read_tract
    patchIt,      \* the patch the for loop takes next
    df_list,      \* the per-patch data frames collected so far
    i,            \* the count of patches appended
    out,          \* what has been printed
    gets,         \* the butler.get calls made, in order
    ret,          \* the data frame returned
    \* dm_butler_lensing_cuts.ipynb, the selection cells
    data,         \* the data frame named data
    base_mask,    \* the baseline mask
    mask,         \* the lensing-cut mask
    cell,         \* position in the selection cells
    stmt,         \* the next "mask &=" statement of the lensing-cut cell
    shares,       \* whether "mask &=" writes through to the column mask was
                  \* taken from (it does unless pandas copies on write)
    selected,     \* data[mask], the rows given to plt.hist
    data_read,    \* history: data as read_tract returned it
    data_base,    \* history: data after the baseline filter
    columns,      \* the names of the columns of data
    run,          \* how many times the lensing-cut cell has been started
    mask_first,   \* history: the mask the first run of the cell built
    \* extragalactic_gcr_photoz_catalogs.ipynb
    df,           \* the data frame of photo-z rows
    brightmask,   \* df['mag_i_photoz'] < magcut
    brightdf,     \* df[brightmask]
    tomocut,      \* the tomographic sub-mask
    nzsum,        \* np.sum(brightdf['pdf'])
    tomonzsum,    \* np.sum(brightdf['pdf'][tomocut])
    zcell,        \* position in the photo-z cells
    plotted,      \* what plt.plot was given, or the error it raised
    hists,        \* what plt.hist was given
    quantities,   \* the dictionary cat.get_quantities returned (named data)
    redshift,     \* the array named redshift
    photoz_mask,  \* the array named photoz_mask
    photoz_mode,  \* the array named photoz_mode
    mag_i_photoz, \* the array named mag_i_photoz
    pzcell,       \* position in the cells that build df
    \* a notebook run top to bottom
    notebook,     \* the notebook that is run
    nbcell,       \* the code cell that is running
    nbstmt,       \* the statement of that cell that runs next
    defined,      \* the global names that are bound
    nbstate,      \* "running", "NameError" or "finished"
    undefined,    \* the lines that raised NameError, with the names they lacked
    \* dm_butler_lensing_cuts.ipynb, the cluster-member cells
    gc,           \* the rows of the catalog named gc
    galaxy_data,  \* the table named galaxy_data
    cluster_data, \* the table named cluster_data
    cluster_i,    \* the value enumerate gives next for i
    members,      \* the table named members
    scatters,     \* what plt.scatter was given, one entry per call
    clcell,       \* position in the cluster-member cells
    clpass        \* 1 for the cells of lines 447-490, 2 for lines 511-543

readVars == <<tract, num_patches, pc, patchIt, df_list, i, out, gets, ret>>
cutVars ==
    <<data, base_mask, mask, cell, stmt, shares, selected, data_read, data_base,
      columns, run, mask_first>>
nzVars ==
    <<df, brightmask, brightdf, tomocut, nzsum, tomonzsum, zcell, plotted,
      hists>>
pzVars ==
    <<quantities, redshift, photoz_mask, photoz_mode, mag_i_photoz, pzcell>>
nbVars == <<notebook, nbcell, nbstmt, defined, nbstate, undefined>>
clVars ==
    <<gc, galaxy_data, cluster_data, cluster_i, members, scatters, clcell,
      clpass>>
vars == <<readVars, cutVars, nzVars, pzVars, nbVars, clVars>>

(***************************************************************************)
(* read_tract                                                              *)
(***************************************************************************)
\* the datasets of one patch, in the order the try block requests them
Datasets ==
    <<"deepCoadd_forced_src", "deepCoadd_calexp_photoCalib", "deepCoadd_ref">>

\* the rows the patches of the model hold
ReadRows ==
    { GoodRaw,
      [GoodRaw EXCEPT !.modelfit_CModel_instFlux = Num(5),
                      !.modelfit_CModel_instFluxErr = Num(0)] }

\* which datasets the butler holds for a patch
Holdings ==
    { {Datasets[1], Datasets[2], Datasets[3]},
      {Datasets[2], Datasets[3]},
      {Datasets[1], Datasets[3]},
      {Datasets[1], Datasets[2]},
      {} }

MakePatch(q, has, rows) ==
    [ index |-> q,
      has |-> has,
      merged_columns |-> MergedColumns \cup {"id"},
      forced_columns |-> ForcedColumns,
      merged |-> [r \in DOMAIN rows |->
                    Restrict(rows[r], MergedColumns) @@ [id |-> <<q, r>>]],
      forced |-> [r \in DOMAIN rows |-> Restrict(rows[r], ForcedColumns)],
      calib |-> [r \in DOMAIN rows |-> Restrict(rows[r], CalibColumns)] ]

\* a catalog without one of its columns
DropColumn(rows, col) ==
    [r \in DOMAIN rows |-> [c \in DOMAIN rows[r] \ {col} |-> rows[r][c]]]

\* the ways the catalogs of a patch depart from what lines 147-160 read: the
\* forced catalog one row shorter or longer than the merged one, or a column
\* those lines name missing from a schema
Defects ==
    { "forced_short", "forced_long",
      "modelfit_CModel_instFlux", "modelfit_CModel_instFluxErr",
      "ext_shapeHSM_HsmShapeRegauss_e1", "ext_shapeHSM_HsmShapeRegauss_e2" }

Defective(patch, defect) ==
    CASE defect = "forced_short" ->
            [patch EXCEPT !.forced = Tail(@), !.calib = Tail(@)]
      [] defect = "forced_long" ->
            [patch EXCEPT
                !.forced = Append(@, Restrict(GoodRaw, ForcedColumns)),
                !.calib = Append(@, Restrict(GoodRaw, CalibColumns))]
      [] defect \in ForcedColumns ->
            [patch EXCEPT !.forced_columns = @ \ {defect},
                          !.forced = DropColumn(@, defect)]
      [] OTHER ->
            [patch EXCEPT !.merged_columns = @ \ {defect},
                          !.merged = DropColumn(@, defect)]

AllDatasets == {Datasets[j] : j \in DOMAIN Datasets}

\* a try block that goes on after the first dataset was obtained
HasForcedOnly(patch) == Datasets[1] \in patch.has

\* butler.get raises NoResults for a dataset the repository does not hold
HasData(patch) == \A j \in DOMAIN Datasets : Datasets[j] \in patch.has

\* the butler.get calls of the try block: up to the first one that raises
FirstMissing(patch) ==
    IF HasData(patch) THEN Len(Datasets)
    ELSE CHOOSE j \in DOMAIN Datasets :
            /\ Datasets[j] \notin patch.has
            /\ \A h \in 1..(j - 1) : Datasets[h] \in patch.has

\* a try block that makes its requests a second time after a NoResults
TryGetsAgain(patch) ==
    LET once == [j \in 1..FirstMissing(patch) |-> <<Datasets[j], patch.index>>]
    IN  IF HasData(patch) THEN once ELSE once \o once

TryGets(patch) ==
    [j \in 1..FirstMissing(patch) |-> <<Datasets[j], patch.index>>]

\* forced['modelfit_CModel_instFlux'] / forced['modelfit_CModel_instFluxErr']
SNR(f) == DivF(f.modelfit_CModel_instFlux, f.modelfit_CModel_instFluxErr)

\* np.hypot(data[..._e1], data[..._e2])
abs_e(m) ==
    HypotF(m.ext_shapeHSM_HsmShapeRegauss_e1, m.ext_shapeHSM_HsmShapeRegauss_e2)

\* one row of data: the merged row and the band-specific columns added to it
DeriveRow(m, f, c) ==
    m @@ [ i_modelfit_CModel_instFlux |-> f.modelfit_CModel_instFlux,
           i_modelfit_CModel_instFluxErr |-> f.modelfit_CModel_instFluxErr,
           i_mag_CModel |-> c.mag,
           i_mag_err_CModel |-> c.mag_err,
           i_modelfit_CModel_SNR |-> SNR(f),
           ext_shapeHSM_HsmShapeRegauss_abs_e |-> abs_e(m) ]

\* line 148, data[...] = forced[...]: an array of another length than the
\* frame is refused, except that a frame without rows takes its index from
\* the array
FitsFrame(frame, column) ==
    Len(column) = Len(frame) \/ (Len(frame) = 0 /\ Len(column) > 0)

\* data after line 148: a frame that took its index from the array holds NaN
\* in every column it had
MergedFrame(patch) ==
    IF Len(patch.merged) = 0
    THEN [r \in DOMAIN patch.forced |-> [c \in patch.merged_columns |-> NaN]]
    ELSE patch.merged

\* lines 147-160: the exception the statements raise for a patch whose three
\* datasets were read, the first of them in statement order
PatchFailure(patch) ==
    CASE "modelfit_CModel_instFlux" \notin patch.forced_columns -> "KeyError"
      [] ~FitsFrame(patch.merged, patch.forced) -> "ValueError"
      [] "modelfit_CModel_instFluxErr" \notin patch.forced_columns -> "KeyError"
      [] "ext_shapeHSM_HsmShapeRegauss_e1" \notin patch.merged_columns ->
            "KeyError"
      [] "ext_shapeHSM_HsmShapeRegauss_e2" \notin patch.merged_columns ->
            "KeyError"
      [] OTHER -> "none"

PatchData(patch) ==
    [r \in DOMAIN MergedFrame(patch) |->
        DeriveRow(MergedFrame(patch)[r], patch.forced[r], patch.calib[r])]

\* pd.concat: the frames one after the other
RECURSIVE Concat(_)
Concat(frames) ==
    IF frames = <<>> THEN <<>> ELSE Head(frames) \o Concat(Tail(frames))

\* the except clause without its print
PrintNoResultsSilent(o, patch) == o

\* except dp.NoResults as eobj: print(eobj)
PrintNoResults(o, patch) ==
    Append(o, [kind |-> "NoResults", patch |-> patch.index])

\* print("   {}  {}   {}".format(i, patchId, len(data)))
PrintPatch(o, n, patch, frame) ==
    Append(o, [kind |-> "patch", loop |-> n, patch |-> patch.index,
               nobj |-> Len(frame)])

\* if i == num_patches: break
Break(n, limit) == <<n>> = limit

NoCuts ==
    /\ data = <<>> /\ base_mask = <<>> /\ mask = <<>> /\ cell = "off"
    /\ stmt = 1 /\ shares = FALSE /\ selected = <<>>
    /\ data_read = <<>> /\ data_base = <<>>
    /\ columns = {} /\ run = 1 /\ mask_first = <<>>

NoNotebook ==
    /\ notebook = "" /\ nbcell = 1 /\ nbstmt = 1 /\ defined = {}
    /\ nbstate = "off" /\ undefined = {}

NoClusters ==
    /\ gc = <<>> /\ galaxy_data = <<>> /\ cluster_data = <<>>
    /\ cluster_i = 0 /\ members = <<>> /\ scatters = <<>>
    /\ clcell = "off" /\ clpass = 1

NoNz ==
    /\ df = <<>> /\ brightmask = <<>> /\ brightdf = <<>> /\ tomocut = <<>>
    /\ nzsum = Unset
    /\ tomonzsum = Unset /\ zcell = "off" /\ plotted = <<>> /\ hists = <<>>
    /\ quantities = <<>> /\ redshift = <<>> /\ photoz_mask = <<>>
    /\ photoz_mode = <<>> /\ mag_i_photoz = <<>> /\ pzcell = "off"

\* tracts with one patch that has a defect, the other patches either holding
\* one good row or missing from the repository
DefectPatches(q) ==
    {Defective(MakePatch(q, AllDatasets, rows), d) :
        <<rows, d>> \in {rd \in SeqsUpTo({GoodRaw}, MaxPatchRows) \X Defects :
                            rd[2] = "forced_short" => rd[1] # <<>>}}

DefectTractsAt(n, j) ==
    {[q \in 1..n |->
        IF q = j THEN p
        ELSE MakePatch(q, IF q \in there THEN AllDatasets ELSE {},
                       <<GoodRaw>>)] :
        p \in DefectPatches(j), there \in SUBSET (1..n \ {j})}

DefectTracts ==
    UNION {DefectTractsAt(nj[1], nj[2]) :
            nj \in {x \in (1..MaxPatches) \X (1..MaxPatches) : x[2] <= x[1]}}

\* tracts of one patch with one row, the row any of the raw rows
OneRowTracts == {<<MakePatch(1, AllDatasets, <<row>>)>> : row \in RawRows}

\* the tract is one whose catalogs are as lines 147-160 expect them, or one
\* of the tracts above
Init ==
    /\ \/ \E n \in 1..MaxPatches :
          \E has \in [1..n -> Holdings] :
          \E rows \in [1..n -> SeqsUpTo(ReadRows, MaxPatchRows)] :
             tract = [q \in 1..n |-> MakePatch(q, has[q], rows[q])]
       \/ tract \in DefectTracts
       \/ tract \in OneRowTracts
    /\ num_patches \in {None} \cup {<<n>> : n \in 0..MaxPatches}
    /\ pc = "call"
    /\ patchIt = 1
    /\ df_list = <<>>
    /\ i = 0
    /\ out = <<>>
    /\ gets = <<>>
    /\ ret = <<>>
    /\ NoCuts
    /\ NoNz
    /\ NoNotebook
    /\ NoClusters

\* lines 123-129
ReadTractBegin ==
    /\ pc = "call"
    /\ num_patches' = IF num_patches = None THEN <<Len(tract)>> ELSE num_patches
    /\ df_list' = <<>>
    /\ i' = 0
    /\ out' = out \o <<[kind |-> "header"], [kind |-> "header"]>>
    /\ pc' = "for"
    /\ UNCHANGED <<tract, patchIt, gets, ret>>

\* lines 130-143, a patch for which a butler.get raises NoResults
PatchNoResults ==
    /\ pc = "for"
    /\ patchIt <= Len(tract)
    /\ ~HasData(tract[patchIt])
    /\ gets' = gets \o TryGets(tract[patchIt])
    /\ out' = PrintNoResults(out, tract[patchIt])
    /\ patchIt' = patchIt + 1
    /\ UNCHANGED <<tract, num_patches, pc, df_list, i, ret>>

\* lines 130-167, a patch that has data
PatchAppend ==
    /\ pc = "for"
    /\ patchIt <= Len(tract)
    /\ HasData(tract[patchIt])
    /\ PatchFailure(tract[patchIt]) = "none"
    /\ gets' = gets \o TryGets(tract[patchIt])
    /\ df_list' = Append(df_list, PatchData(tract[patchIt]))
    /\ out' = PrintPatch(out, i, tract[patchIt], PatchData(tract[patchIt]))
    /\ i' = i + 1
    /\ patchIt' = patchIt + 1
    /\ pc' = IF Break(i', num_patches) THEN "return" ELSE "for"
    /\ UNCHANGED <<tract, num_patches, ret>>

\* lines 130-160, a patch that has data and whose catalogs make one of the
\* statements after the try block raise: nothing catches the exception
PatchRaises ==
    /\ pc = "for"
    /\ patchIt <= Len(tract)
    /\ HasData(tract[patchIt])
    /\ PatchFailure(tract[patchIt]) # "none"
    /\ gets' = gets \o TryGets(tract[patchIt])
    /\ pc' = PatchFailure(tract[patchIt])
    /\ UNCHANGED <<tract, num_patches, patchIt, df_list, i, out, ret>>

\* line 130, the tract has no further patch
ForExhausted ==
    /\ pc = "for"
    /\ patchIt > Len(tract)
    /\ pc' = "return"
    /\ UNCHANGED <<tract, num_patches, patchIt, df_list, i, out, gets, ret>>

\* line 168
ReturnConcat ==
    /\ pc = "return"
    /\ df_list # <<>>
    /\ ret' = Concat(df_list)
    /\ pc' = "done"
    /\ UNCHANGED <<tract, num_patches, patchIt, df_list, i, out, gets>>

\* line 168, pd.concat of an empty list raises ValueError
ConcatRaises ==
    /\ pc = "return"
    /\ df_list = <<>>
    /\ pc' = "ValueError"
    /\ UNCHANGED <<tract, num_patches, patchIt, df_list, i, out, gets, ret>>

Next ==
    \/ (ReadTractBegin /\ UNCHANGED <<cutVars, nzVars, pzVars,
                  nbVars, clVars>>)
    \/ (PatchNoResults /\ UNCHANGED <<cutVars, nzVars, pzVars,
                  nbVars, clVars>>)
    \/ (PatchAppend /\ UNCHANGED <<cutVars, nzVars, pzVars,
                  nbVars, clVars>>)
    \/ (PatchRaises /\ UNCHANGED <<cutVars, nzVars, pzVars,
                  nbVars, clVars>>)
    \/ (ForExhausted /\ UNCHANGED <<cutVars, nzVars, pzVars,
                  nbVars, clVars>>)
    \/ (ReturnConcat /\ UNCHANGED <<cutVars, nzVars, pzVars,
                  nbVars, clVars>>)
    \/ (ConcatRaises /\ UNCHANGED <<cutVars, nzVars, pzVars,
                  nbVars, clVars>>)

Spec == Init /\ [][Next]_vars

(***************************************************************************)
(* The selection cells: the baseline NaN cut and the weak-lensing cuts.    *)
(***************************************************************************)
\* a filter that collects the kept rows last to first
RECURSIVE FilterReversed(_, _)
FilterReversed(table, m) ==
    IF table = <<>> THEN <<>>
    ELSE FilterReversed(Tail(table), Tail(m))
         \o (IF Head(m) THEN <<Head(table)>> ELSE <<>>)

\* data[mask] with a boolean mask: the rows whose mask entry is true, in order
RECURSIVE Filter(_, _)
Filter(table, m) ==
    IF table = <<>> THEN <<>>
    ELSE (IF Head(m) THEN <<Head(table)>> ELSE <<>>)
         \o Filter(Tail(table), Tail(m))

\* one entry of base_mask
BaseMaskRow(r) ==
    ~(\/ isnan(r.i_modelfit_CModel_instFlux)
      \/ isnan(r.ext_shapeHSM_HsmShapeRegauss_resolution)
      \/ isnan(r.ext_shapeHSM_HsmShapeRegauss_e1))

\* the right-hand sides of the "mask &=" statements, in order
Cuts ==
    [j \in DOMAIN FlagColumns |-> [col |-> FlagColumns[j], op |-> "== False"]]
    \o << [col |-> "i_modelfit_CModel_SNR", op |-> ">=", val |-> Num(10)],
          [col |-> "ext_shapeHSM_HsmShapeRegauss_resolution", op |-> ">=",
           val |-> Fin(3, 10)],
          [col |-> "ext_shapeHSM_HsmShapeRegauss_abs_e", op |-> "<",
           val |-> Num(2)],
          [col |-> "ext_shapeHSM_HsmShapeRegauss_sigma", op |-> "<=",
           val |-> Fin(2, 5)],
          [col |-> "i_mag_CModel", op |-> "<", val |-> Fin(49, 2)],
          [col |-> "base_Blendedness_abs", op |-> "<", val |-> BlendednessCut] >>

\* cuts that all leave out the threshold itself
EvalCutStrict(cut, r) ==
    CASE cut.op = "== False" -> r[cut.col] = FALSE
      [] cut.op = ">=" -> GtF(r[cut.col], cut.val)
      [] cut.op = "<=" -> LtF(r[cut.col], cut.val)
      [] cut.op = "<" -> LtF(r[cut.col], cut.val)

\* cuts written as the negation of the opposite comparison
EvalCutByNegation(cut, r) ==
    CASE cut.op = "== False" -> r[cut.col] = FALSE
      [] cut.op = ">=" -> ~LtF(r[cut.col], cut.val)
      [] cut.op = "<=" -> ~GtF(r[cut.col], cut.val)
      [] cut.op = "<" -> ~GeF(r[cut.col], cut.val)

\* one entry of the boolean series a cut evaluates to
EvalCut(cut, r) ==
    CASE cut.op = "== False" -> r[cut.col] = FALSE
      [] cut.op = ">=" -> GeF(r[cut.col], cut.val)
      [] cut.op = "<=" -> LeF(r[cut.col], cut.val)
      [] cut.op = "<" -> LtF(r[cut.col], cut.val)

\* mask |= other, one entry
IOr(m, other) == m \/ other

\* mask ^= other, one entry
IXor(m, other) == m # other

\* mask &= other, one entry
IAnd(m, other) == m /\ other

\* the table mask and the column it was taken from share: writing the mask in
\* place writes the column
WriteThrough(table, m) ==
    [r \in DOMAIN table |-> [table[r] EXCEPT !.detect_isPrimary = m[r]]]

\* the tables the selection cells start from: what read_tract returns for a
\* patch of plain rows, one of which may be any raw row
PlainRows ==
    {GoodRaw, [GoodRaw EXCEPT !.modelfit_CModel_instFlux = NaN]}

RawTables ==
    {<<>>} \cup
    UNION {{[t EXCEPT ![j] = r] :
                t \in [1..n -> PlainRows], j \in 1..n, r \in RawRows} :
           n \in 1..MaxRows}

\* the columns of the table read_tract returns
DataColumns ==
    MergedColumns \cup {"id"} \cup
    { "i_modelfit_CModel_instFlux", "i_modelfit_CModel_instFluxErr",
      "i_mag_CModel", "i_mag_err_CModel", "i_modelfit_CModel_SNR",
      "ext_shapeHSM_HsmShapeRegauss_abs_e" }

\* the columns the selection cells name that read_tract neither adds nor
\* reads: a merged catalog without one of them is read without an exception
Droppable ==
    {"detect_isPrimary"} \cup {FlagColumns[j] : j \in DOMAIN FlagColumns}
    \cup { "ext_shapeHSM_HsmShapeRegauss_resolution",
           "ext_shapeHSM_HsmShapeRegauss_sigma", "base_Blendedness_abs" }

\* the tables read from a merged catalog that lacks a column
ShortTables ==
    SeqsUpTo({GoodRaw, [GoodRaw EXCEPT !.deblend_skipped = TRUE]}, MaxRows)

InitCuts ==
    /\ \/ /\ \E rows \in RawTables :
                data = PatchData(MakePatch(1, AllDatasets, rows))
          /\ columns = DataColumns
       \/ \E rows \in ShortTables : \E col \in Droppable :
             /\ data = DropColumn(PatchData(MakePatch(1, AllDatasets, rows)),
                                  col)
             /\ columns = DataColumns \ {col}
    /\ run = 1
    /\ mask_first = <<>>
    /\ data_read = data
    /\ data_base = <<>>
    /\ base_mask = <<>>
    /\ mask = <<>>
    /\ selected = <<>>
    /\ cell = "baseline"
    /\ stmt = 1
    /\ shares \in BOOLEAN
    /\ tract = <<>> /\ num_patches = None /\ pc = "done" /\ patchIt = 1
    /\ df_list = <<>> /\ i = 0 /\ out = <<>> /\ gets = <<>> /\ ret = <<>>
    /\ NoNz
    /\ NoNotebook
    /\ NoClusters

\* the baseline cell without its "data = data[base_mask]"
BaselineCutNotApplied ==
    /\ cell = "baseline"
    /\ base_mask' = [r \in DOMAIN data |-> BaseMaskRow(data[r])]
    /\ data' = data
    /\ data_base' = data'
    /\ cell' = "primary"
    /\ UNCHANGED <<mask, stmt, shares, selected, data_read, columns, run,
                   mask_first>>

\* lines 231-233, the table has no resolution column
BaselineKeyError ==
    /\ cell = "baseline"
    /\ "ext_shapeHSM_HsmShapeRegauss_resolution" \notin columns
    /\ cell' = "KeyError"
    /\ UNCHANGED <<data, base_mask, mask, stmt, shares, selected, data_read,
                   data_base, columns, run, mask_first>>

\* lines 231-235
BaselineCut ==
    /\ cell = "baseline"
    /\ "ext_shapeHSM_HsmShapeRegauss_resolution" \in columns
    /\ base_mask' = [r \in DOMAIN data |-> BaseMaskRow(data[r])]
    /\ data' = Filter(data, base_mask')
    /\ data_base' = data'
    /\ cell' = "primary"
    /\ UNCHANGED <<mask, stmt, shares, selected, data_read, columns, run,
                   mask_first>>

\* line 253
MaskPrimary ==
    /\ cell = "primary"
    /\ "detect_isPrimary" \in columns
    /\ mask' = [r \in DOMAIN data |-> data[r].detect_isPrimary]
    /\ stmt' = 1
    /\ cell' = "cuts"
    /\ UNCHANGED <<data, base_mask, shares, selected, data_read, data_base,
                   columns, run, mask_first>>

\* line 253, the table has no column detect_isPrimary
MaskPrimaryKeyError ==
    /\ cell = "primary"
    /\ "detect_isPrimary" \notin columns
    /\ stmt' = 0
    /\ cell' = "KeyError"
    /\ UNCHANGED <<data, base_mask, mask, shares, selected, data_read,
                   data_base, columns, run, mask_first>>

\* lines 254-270, one statement
MaskAnd ==
    /\ cell = "cuts"
    /\ stmt <= Len(Cuts)
    /\ Cuts[stmt].col \in columns
    /\ mask' = [r \in DOMAIN mask |-> IAnd(mask[r], EvalCut(Cuts[stmt], data[r]))]
    /\ data' = IF shares THEN WriteThrough(data, mask') ELSE data
    /\ stmt' = stmt + 1
    /\ cell' = IF stmt = Len(Cuts) THEN "plot" ELSE "cuts"
    /\ UNCHANGED <<base_mask, shares, selected, data_read, data_base, columns,
                   run, mask_first>>

\* lines 254-270, a statement that names a column the table does not have
MaskAndKeyError ==
    /\ cell = "cuts"
    /\ stmt <= Len(Cuts)
    /\ Cuts[stmt].col \notin columns
    /\ cell' = "KeyError"
    /\ UNCHANGED <<data, base_mask, mask, stmt, shares, selected, data_read,
                   data_base, columns, run, mask_first>>

\* lines 288-305, data[column][mask]
PlotSelected ==
    /\ cell = "plot"
    /\ selected' = Filter(data, mask)
    /\ cell' = "done"
    /\ UNCHANGED <<data, base_mask, mask, stmt, shares, data_read, data_base,
                   columns, run, mask_first>>

\* the lensing-cut cell started a second time, data as the first run left it
RunAgain ==
    /\ cell = "done"
    /\ run = 1
    /\ run' = 2
    /\ mask_first' = mask
    /\ cell' = "primary"
    /\ UNCHANGED <<data, base_mask, mask, stmt, shares, selected, data_read,
                   data_base, columns>>

NextCuts ==
    \/ (BaselineCut /\ UNCHANGED <<readVars, nzVars, pzVars,
                  nbVars, clVars>>)
    \/ (BaselineKeyError /\ UNCHANGED <<readVars, nzVars, pzVars,
                  nbVars, clVars>>)
    \/ (MaskPrimary /\ UNCHANGED <<readVars, nzVars, pzVars,
                  nbVars, clVars>>)
    \/ (MaskPrimaryKeyError /\ UNCHANGED <<readVars, nzVars, pzVars,
                  nbVars, clVars>>)
    \/ (MaskAnd /\ UNCHANGED <<readVars, nzVars, pzVars,
                  nbVars, clVars>>)
    \/ (MaskAndKeyError /\ UNCHANGED <<readVars, nzVars, pzVars,
                  nbVars, clVars>>)
    \/ (PlotSelected /\ UNCHANGED <<readVars, nzVars, pzVars,
                  nbVars, clVars>>)

SpecCuts == InitCuts /\ [][NextCuts]_vars

\* the selection cells with the lensing-cut cell run a second time
NextRerun ==
    \/ NextCuts
    \/ (RunAgain /\ UNCHANGED <<readVars, nzVars, pzVars,
                  nbVars, clVars>>)

SpecRerun == InitCuts /\ [][NextRerun]_vars

(***************************************************************************)
(* The photo-z notebook: the bright sample and the summed p(z).            *)
(***************************************************************************)
\* line 216
magcut == Fin(236, 10)

\* cat.photoz_pdf_bin_centers, the grid every pdf is sampled on
zgrid == [k \in 1..GridLen |-> Fin(k - 1, 100)]

\* an addition that takes NaN for nothing, as np.nansum does
AddFSkipNaN(x, y) ==
    CASE isnan(x) -> y
      [] isnan(y) -> x
      [] isinf(x) /\ isinf(y) -> IF x.n = y.n THEN x ELSE NaN
      [] isinf(x) -> x
      [] isinf(y) -> y
      [] OTHER -> Fin(x.n * y.d + y.n * x.d, x.d * y.d)

\* x + y of two floats
AddF(x, y) ==
    CASE isnan(x) \/ isnan(y) -> NaN
      [] isinf(x) /\ isinf(y) -> IF x.n = y.n THEN x ELSE NaN
      [] isinf(x) -> x
      [] isinf(y) -> y
      [] OTHER -> Fin(x.n * y.d + y.n * x.d, x.d * y.d)

\* c * y of two floats, c finite and positive
MulF(c, y) ==
    CASE isnan(y) -> NaN
      [] isinf(y) -> y
      [] OTHER -> Fin(c.n * y.n, c.d * y.d)

\* a + b of two numpy arrays of one length
AddVec(a, b) == [k \in DOMAIN a |-> AddF(a[k], b[k])]

\* the reduction of an object array with +, from its first element on
RECURSIVE Reduce(_, _)
Reduce(acc, rest) ==
    IF rest = <<>> THEN acc ELSE Reduce(AddVec(acc, Head(rest)), Tail(rest))

\* a sum that adds the first entry to itself before the others
SumPdfFirstTwice(pdfs) ==
    IF pdfs = <<>> THEN [shape |-> "scalar", v |-> <<Num(0)>>]
    ELSE [shape |-> "vector", v |-> Reduce(Head(pdfs), pdfs)]

\* np.sum of a series whose entries are numpy arrays: the sum of no entry is
\* the integer 0
SumPdf(pdfs) ==
    IF pdfs = <<>> THEN [shape |-> "scalar", v |-> <<Num(0)>>]
    ELSE [shape |-> "vector", v |-> Reduce(Head(pdfs), Tail(pdfs))]

Column(table, col) == [r \in DOMAIN table |-> table[r][col]]

\* table[col] as a series: each value with the index label of its row
Series(table, col) ==
    [r \in DOMAIN table |-> [index |-> table[r].index, v |-> table[r][col]]]

\* c * nzsum
Scale(c, s) == [s EXCEPT !.v = [k \in DOMAIN s.v |-> MulF(c, s.v[k])]]

\* plt.plot(x, y): x and y must have the same first dimension; a scalar y is
\* an array of one element
Plot(x, y) ==
    IF Len(x) = Len(y.v) THEN [x |-> x, y |-> y.v] ELSE [error |-> "ValueError"]

\* a slice that takes its lower bound and leaves its upper bound out
TomoRowLowerClosed(r, lo, hi) == GeF(r.zmode, lo) /\ LtF(r.zmode, hi)

\* (brightdf['zmode'] > lo) & (brightdf['zmode'] <= hi), one entry
TomoRow(r, lo, hi) == GtF(r.zmode, lo) /\ LeF(r.zmode, hi)

\* the tomographic bins of lines 384 and 411
TomoBins == << <<Fin(4, 10), Fin(6, 10)>>, <<Fin(1, 10), Fin(3, 10)>> >>

\* the rows of the photo-z data frame
PdfSet ==
    { [k \in 1..GridLen |-> Fin(k, 10)],
      [k \in 1..GridLen |-> IF k = 1 THEN Num(1) ELSE Num(0)],
      [k \in 1..GridLen |-> IF k = GridLen THEN NaN ELSE Fin(1, 2)],
      [k \in 1..GridLen |-> NaN] }

PzRows ==
    [ zmode : {Fin(1, 10), Fin(2, 10), Fin(3, 10), Fin(4, 10), Fin(5, 10),
               Fin(6, 10), Fin(7, 10)},
      mag_i_photoz : {Num(23), magcut, Num(25)},
      specz : {Fin(1, 2)},
      pdf : PdfSet ]

PlainPzRows ==
    { [zmode |-> Fin(5, 10), mag_i_photoz |-> Num(23), specz |-> Fin(1, 2),
       pdf |-> [k \in 1..GridLen |-> Fin(k, 10)]],
      [zmode |-> Fin(2, 10), mag_i_photoz |-> Num(23), specz |-> Fin(1, 2),
       pdf |-> [k \in 1..GridLen |-> IF k = 1 THEN Num(1) ELSE Num(0)]] }

PzTables ==
    {<<>>} \cup
    UNION {{[t EXCEPT ![j] = r] :
                t \in [1..n -> PlainPzRows], j \in 1..n, r \in PzRows} :
           n \in 1..MaxRows}

\* pd.DataFrame(pzdict): the rows get the index 0, 1, ...
MakeDf(rows) == [r \in DOMAIN rows |-> rows[r] @@ [index |-> r - 1]]

InitNz ==
    /\ \E rows \in PzTables : df = MakeDf(rows)
    /\ brightmask = <<>>
    /\ brightdf = <<>>
    /\ tomocut = <<>>
    /\ nzsum = Unset
    /\ tomonzsum = Unset
    /\ plotted = <<>>
    /\ hists = <<>>
    /\ zcell = "bright"
    /\ quantities = <<>> /\ redshift = <<>> /\ photoz_mask = <<>>
    /\ photoz_mode = <<>> /\ mag_i_photoz = <<>> /\ pzcell = "off"
    /\ tract = <<>> /\ num_patches = None /\ pc = "done" /\ patchIt = 1
    /\ df_list = <<>> /\ i = 0 /\ out = <<>> /\ gets = <<>> /\ ret = <<>>
    /\ NoCuts
    /\ NoNotebook
    /\ NoClusters

\* lines 234-235
BrightCut ==
    /\ zcell = "bright"
    /\ brightmask' = [r \in DOMAIN df |-> LtF(df[r].mag_i_photoz, magcut)]
    /\ brightdf' = Filter(df, brightmask')
    /\ zcell' = "nzsum"
    /\ UNCHANGED <<df, tomocut, nzsum, tomonzsum, plotted, hists>>

\* lines 359-366
NzSum ==
    /\ zcell = "nzsum"
    /\ nzsum' = SumPdf(Column(brightdf, "pdf"))
    /\ hists' = Append(hists, Series(brightdf, "specz"))
    /\ plotted' = Append(plotted, Plot(zgrid, Scale(Num(5), nzsum')))
    /\ zcell' = IF Len(zgrid) = Len(nzsum'.v) THEN "tomo" ELSE "ValueError"
    /\ UNCHANGED <<df, brightmask, brightdf, tomocut, tomonzsum>>

\* lines 384-393 and 411-419, one tomographic bin
TomoSum(bin) ==
    /\ tomocut' = [r \in DOMAIN brightdf |->
                        TomoRow(brightdf[r], TomoBins[bin][1], TomoBins[bin][2])]
    /\ tomonzsum' = SumPdf(Column(Filter(brightdf, tomocut'), "pdf"))
    /\ hists' = Append(hists, Series(Filter(brightdf, tomocut'), "specz"))
    /\ plotted' = Append(plotted, Plot(zgrid, Scale(Num(2), tomonzsum')))
    /\ UNCHANGED <<df, brightmask, brightdf, nzsum>>

TomoFirst ==
    /\ zcell = "tomo"
    /\ TomoSum(1)
    /\ zcell' = IF Len(zgrid) = Len(tomonzsum'.v) THEN "tomo2" ELSE "ValueError"

TomoSecond ==
    /\ zcell = "tomo2"
    /\ TomoSum(2)
    /\ zcell' = IF Len(zgrid) = Len(tomonzsum'.v) THEN "done" ELSE "ValueError"

NextNz ==
    \/ (BrightCut /\ UNCHANGED <<readVars, cutVars, pzVars,
                  nbVars, clVars>>)
    \/ (NzSum /\ UNCHANGED <<readVars, cutVars, pzVars,
                  nbVars, clVars>>)
    \/ (TomoFirst /\ UNCHANGED <<readVars, cutVars, pzVars,
                  nbVars, clVars>>)
    \/ (TomoSecond /\ UNCHANGED <<readVars, cutVars, pzVars,
                  nbVars, clVars>>)

SpecNz == InitNz /\ [][NextNz]_vars

(***************************************************************************)
(* The cells that build df from the catalog.  An entry of an array is      *)
(* written [gal, v]: the value v and the galaxy it belongs to.             *)
(***************************************************************************)
\* the elements of a set of numbers, smallest first
RECURSIVE InOrder(_)
InOrder(S) ==
    IF S = {} THEN <<>>
    ELSE LET least == CHOOSE x \in S : \A y \in S : x <= y
         IN  <<least>> \o InOrder(S \ {least})

\* the quantities of the extragalactic catalog, one entry per galaxy
FullQuantities == {"redshift", "mag_i_photoz"}

\* the quantities of the photo-z files, one entry per galaxy they hold
PhotozQuantities ==
    { "photoz_mode", "photoz_mean", "photoz_odds", "photoz_mode_ml_red_chi2",
      "photoz_pdf" }

\* what the catalog holds of galaxy g
GalaxyValue(g, name) ==
    CASE name = "redshift" -> Fin(g, 10)
      [] name = "mag_i_photoz" -> Num(22 + g)
      [] name = "photoz_mode" -> Fin(g + 1, 10)
      [] name = "photoz_mean" -> Fin(2 * g + 1, 20)
      [] name = "photoz_odds" -> Fin(g, g + 1)
      [] name = "photoz_mode_ml_red_chi2" -> Num(g)
      [] name = "photoz_pdf" -> [k \in 1..GridLen |-> Fin(g, k)]

\* lines 131-132: the dictionary for a catalog of n galaxies whose photo-z
\* files hold the galaxies in S, in row order, and whose photoz_mask is m
GetQuantities(n, m, S) ==
    [name \in FullQuantities |->
        [g \in 1..n |-> [gal |-> g, v |-> GalaxyValue(g, name)]]]
    @@ [name \in PhotozQuantities |->
        [j \in 1..Cardinality(S) |->
            [gal |-> InOrder(S)[j], v |-> GalaxyValue(InOrder(S)[j], name)]]]
    @@ [photoz_mask |-> m]

\* pd.DataFrame(pzdict) and df['pdf'] = ...: arrays of one length only
SameLength(arrays) ==
    \A a, b \in DOMAIN arrays : Len(arrays[a]) = Len(arrays[b])

\* lines 191-192
pzdict ==
    [ specz |-> redshift,
      zmode |-> photoz_mode,
      zmean |-> quantities.photoz_mean,
      odds |-> quantities.photoz_odds,
      ml_chi2 |-> quantities.photoz_mode_ml_red_chi2,
      mag_i_photoz |-> mag_i_photoz ]

InitPz ==
    /\ \E n \in 0..MaxRows : \E m \in [1..n -> BOOLEAN] :
       \E S \in SUBSET (1..n) :
          quantities = GetQuantities(n, m, S)
    /\ redshift = <<>> /\ photoz_mask = <<>> /\ photoz_mode = <<>>
    /\ mag_i_photoz = <<>>
    /\ pzcell = "read"
    /\ df = <<>> /\ brightmask = <<>> /\ brightdf = <<>> /\ tomocut = <<>>
    /\ nzsum = Unset /\ tomonzsum = Unset /\ zcell = "off" /\ plotted = <<>>
    /\ hists = <<>>
    /\ tract = <<>> /\ num_patches = None /\ pc = "done" /\ patchIt = 1
    /\ df_list = <<>> /\ i = 0 /\ out = <<>> /\ gets = <<>> /\ ret = <<>>
    /\ NoCuts
    /\ NoNotebook
    /\ NoClusters

\* lines 155-160
ReadColumns ==
    /\ pzcell = "read"
    /\ redshift' = quantities.redshift
    /\ photoz_mask' = quantities.photoz_mask
    /\ photoz_mode' = quantities.photoz_mode
    /\ mag_i_photoz' = quantities.mag_i_photoz
    /\ pzcell' = "mask"
    /\ UNCHANGED <<quantities, df>>

\* the masking cell without its second statement
ApplyPhotozMaskToRedshiftOnly ==
    /\ pzcell = "mask"
    /\ redshift' = Filter(redshift, photoz_mask)
    /\ mag_i_photoz' = mag_i_photoz
    /\ pzcell' = "frame"
    /\ UNCHANGED <<quantities, photoz_mask, photoz_mode, df>>

\* lines 171-173
ApplyPhotozMask ==
    /\ pzcell = "mask"
    /\ redshift' = Filter(redshift, photoz_mask)
    /\ mag_i_photoz' = Filter(mag_i_photoz, photoz_mask)
    /\ pzcell' = "frame"
    /\ UNCHANGED <<quantities, photoz_mask, photoz_mode, df>>

\* lines 191-194
BuildDf ==
    /\ pzcell = "frame"
    /\ SameLength(pzdict)
    /\ Len(quantities.photoz_pdf) = Len(photoz_mode)
    /\ df' = MakeDf([r \in DOMAIN photoz_mode |->
                        [c \in DOMAIN pzdict |-> pzdict[c][r]]
                        @@ [pdf |-> quantities.photoz_pdf[r]]])
    /\ pzcell' = "built"
    /\ UNCHANGED <<quantities, redshift, photoz_mask, photoz_mode,
                   mag_i_photoz>>

\* line 193, pd.DataFrame raises ValueError for arrays of different lengths
BuildDfRaises ==
    /\ pzcell = "frame"
    /\ ~SameLength(pzdict)
    /\ pzcell' = "ValueError"
    /\ UNCHANGED <<quantities, redshift, photoz_mask, photoz_mode,
                   mag_i_photoz, df>>

PzRest ==
    UNCHANGED <<readVars, cutVars, brightmask, brightdf, tomocut, nzsum,
                tomonzsum, zcell, plotted, hists, nbVars, clVars>>

NextPz ==
    \/ (ReadColumns /\ PzRest)
    \/ (ApplyPhotozMask /\ PzRest)
    \/ (BuildDf /\ PzRest)
    \/ (BuildDfRaises /\ PzRest)

SpecPz == InitPz /\ [][NextPz]_vars

\* either notebook, run from its first selection cell
InitFilter == InitCuts \/ InitNz
NextFilter == NextCuts \/ NextNz
SpecFilter == InitFilter /\ [][NextFilter]_vars

(***************************************************************************)
(* The cells of a notebook, run once each from the first to the last       *)
(***************************************************************************)
\* a statement that starts at a line of the file: the global names it reads
\* that are not builtins (a call of a function the notebook defines reads
\* what the body of the function reads) and the names it binds
St(line, reads, binds) ==
    [line |-> line, reads |-> reads, binds |-> binds, dels |-> {}]

\* a del statement
Del(line, targets) ==
    [line |-> line, reads |-> targets, binds |-> {}, dels |-> targets]

\* the code cells of dm_butler_lensing_cuts.ipynb, lines 1-339, each the statements it runs in order
DmButlerLensingCuts ==
    <<
      << St(32, {}, {"np"}),
         St(33, {}, {"pd"}),
         St(34, {}, {"plt"}),
         St(37, {}, {"dp"}),
         St(39, {}, {"REPOS"}) >>,
      << St(59, {"REPOS"}, {}) >>,
      << St(70, {"skymap"}, {"tract"}),
         St(71, {}, {"filter"}),
         St(72, {"butler", "dp", "filter_", "tract"}, {"calib", "dataId", "eobj", "forced", "merged", "patch", "patchId"}) >>,
      << St(96, {}, {"read_tract"}) >>,
      << St(188, {"REPOS", "dp"}, {"butler"}) >>,
      << St(206, {"butler"}, {"skymap"}),
         St(207, {}, {"tractId"}),
         St(208, {}, {"filter_"}),
         St(209, {}, {"num_patches"}),
         St(210, {"butler", "dp", "filter_", "np", "num_patches", "pd", "read_tract", "skymap", "tractId"}, {"data"}),
         St(211, {"data"}, {}) >>,
      << St(231, {"data", "np"}, {"base_mask"}),
         St(234, {"base_mask", "data"}, {"data"}),
         St(235, {"data"}, {}) >>,
      << St(253, {"data"}, {"mask"}),
         St(254, {"data", "mask"}, {}),
         St(255, {"data", "mask"}, {}),
         St(256, {"data", "mask"}, {}),
         St(257, {"data", "mask"}, {}),
         St(258, {"data", "mask"}, {}),
         St(259, {"data", "mask"}, {}),
         St(260, {"data", "mask"}, {}),
         St(261, {"data", "mask"}, {}),
         St(262, {"data", "mask"}, {}),
         St(265, {"data", "mask"}, {}),
         St(266, {"data", "mask"}, {}),
         St(267, {"data", "mask"}, {}),
         St(268, {"data", "mask"}, {}),
         St(269, {"data", "mask"}, {}),
         St(270, {"data", "mask"}, {}) >>,
      << St(288, {"plt"}, {"fig"}),
         St(289, {}, {"hist_kwds"}),
         St(290, {"fig"}, {"p1"}),
         St(291, {"data", "hist_kwds", "mask", "plt"}, {}),
         St(292, {"filter_", "plt"}, {}),
         St(293, {"plt"}, {}),
         St(294, {"fig"}, {"p2"}),
         St(295, {"data", "filter_", "hist_kwds", "mask", "plt"}, {}),
         St(296, {"filter_", "plt"}, {}),
         St(297, {"plt"}, {}),
         St(298, {"fig"}, {"p3"}),
         St(299, {"data", "filter_", "hist_kwds", "mask", "plt"}, {}),
         St(300, {"filter_", "plt"}, {}),
         St(301, {"plt"}, {}),
         St(302, {"fig"}, {"p4"}),
         St(303, {"data", "hist_kwds", "mask", "plt"}, {}),
         St(304, {"plt"}, {}),
         St(305, {"plt"}, {}) >>
    >>

\* the code cells of dm_butler_lensing_cuts.ipynb, lines 341-575, each the statements it runs in order
ClusterMembers ==
    <<
      << St(378, {}, {"GCRCatalogs"}),
         St(379, {}, {"np"}),
         St(380, {}, {"Table"}),
         St(381, {}, {"GCRQuery"}),
         St(382, {}, {"plt"}) >>,
      << St(406, {"GCRCatalogs"}, {"gc"}) >>,
      << St(425, {"GCRCatalogs"}, {"gc"}) >>,
      << St(436, {"GCRCatalogs"}, {"gc"}) >>,
      << St(447, {"gc"}, {"galaxy_data"}),
         St(448, {"gc"}, {"cluster_data"}) >>,
      << St(472, {"Table", "cluster_data"}, {"cluster_data"}),
         St(473, {"GCRQuery", "cluster_data", "galaxy_data", "plt"}, {"cluster", "i", "members"}),
         St(490, {"plt"}, {}) >>,
      << St(511, {"gc"}, {"galaxy_data"}),
         St(512, {"gc"}, {"cluster_data"}) >>,
      << St(524, {"Table", "cluster_data"}, {"cluster_data"}),
         St(525, {"GCRQuery", "cluster_data", "galaxy_data", "plt"}, {"cluster", "i", "members"}),
         St(543, {"plt"}, {}) >>
    >>

\* the code cells of extragalactic_gcr_photoz_catalogs.ipynb, each the statements it runs in order
PhotozCatalogs ==
    <<
      << St(40, {}, {"np"}),
         St(41, {}, {"pd"}),
         St(42, {}, {"plt"}) >>,
      << St(54, {}, {"GCRCatalogs"}),
         St(55, {}, {"GCRQuery"}) >>,
      << St(79, {"GCRCatalogs"}, {"cat"}) >>,
      << St(120, {"cat"}, {}) >>,
      << St(131, {"cat"}, {"data"}) >>,
      << St(155, {"data"}, {"redshift"}),
         St(156, {"data"}, {"photoz_mask"}),
         St(157, {"data"}, {"photoz_mode"}),
         St(158, {"data"}, {"mag_i_photoz"}),
         St(159, {"redshift"}, {}),
         St(160, {"photoz_mode"}, {}) >>,
      << St(171, {"photoz_mask", "redshift"}, {"redshift"}),
         St(172, {"mag_i_photoz", "photoz_mask"}, {"mag_i_photoz"}),
         St(173, {"redshift"}, {}) >>,
      << St(191, {"data", "mag_i_photoz", "photoz_mode", "redshift"}, {"pzdict"}),
         St(193, {"pd", "pzdict"}, {"df"}),
         St(194, {"data", "df"}, {}) >>,
      << St(205, {"df"}, {}) >>,
      << St(216, {}, {"magcut"}) >>,
      << St(234, {"df", "magcut"}, {"brightmask"}),
         St(235, {"brightmask", "df"}, {"brightdf"}),
         St(237, {"plt"}, {"fig"}),
         St(238, {"plt"}, {"fig"}),
         St(239, {"df", "plt"}, {}),
         St(240, {"brightdf", "magcut", "plt"}, {}),
         St(241, {"plt"}, {}),
         St(242, {"plt"}, {}),
         St(243, {"plt"}, {}),
         St(244, {"plt"}, {}),
         St(245, {"plt"}, {}),
         St(246, {"plt"}, {"fig"}),
         St(247, {"df", "plt"}, {}),
         St(248, {"brightdf", "magcut", "plt"}, {}),
         St(249, {"plt"}, {}),
         St(250, {"plt"}, {}),
         St(251, {"plt"}, {}),
         St(252, {"plt"}, {}),
         St(253, {"plt"}, {}) >>,
      << St(275, {"brightdf"}, {"oddscut"}),
         St(276, {"brightdf"}, {"chicut"}),
         St(278, {"plt"}, {"fig"}),
         St(279, {"plt"}, {}),
         St(280, {"brightdf", "magcut", "plt"}, {}),
         St(281, {"brightdf", "magcut", "oddscut", "plt"}, {}),
         St(282, {"plt"}, {}),
         St(283, {"plt"}, {}),
         St(284, {"plt"}, {}),
         St(285, {"plt"}, {}),
         St(286, {"plt"}, {}),
         St(287, {"plt"}, {}),
         St(288, {"brightdf", "plt"}, {}),
         St(289, {"brightdf", "chicut", "plt"}, {}),
         St(290, {"plt"}, {}),
         St(291, {"plt"}, {}),
         St(292, {"plt"}, {}),
         St(293, {"plt"}, {}),
         St(294, {"plt"}, {}) >>,
      << St(319, {"cat"}, {}),
         St(320, {"cat"}, {"zgrid"}) >>,
      << St(331, {"plt"}, {"ax", "fig"}),
         St(332, {"ax", "df", "zgrid"}, {"ax_this", "l", "pdf", "z_mean", "z_peak"}) >>,
      << St(359, {"plt"}, {"fig"}),
         St(360, {"brightdf", "np"}, {"nzsum"}),
         St(361, {"np"}, {"szbins"}),
         St(362, {"brightdf", "plt", "szbins"}, {}),
         St(363, {"magcut", "nzsum", "plt", "zgrid"}, {}),
         St(364, {"plt"}, {}),
         St(365, {"plt"}, {}),
         St(366, {"plt"}, {}) >>,
      << St(384, {"brightdf"}, {"tomocut"}),
         St(385, {"brightdf", "np", "tomocut"}, {"tomonzsum"}),
         St(386, {"np"}, {"tomobins"}),
         St(387, {"plt"}, {"fig"}),
         St(388, {"brightdf", "plt", "tomobins", "tomocut"}, {}),
         St(389, {"plt", "tomonzsum", "zgrid"}, {}),
         St(390, {"plt"}, {}),
         St(391, {"plt"}, {}),
         St(393, {"plt"}, {}) >>,
      << St(411, {"brightdf"}, {"tomocut"}),
         St(412, {"brightdf", "np", "tomocut"}, {"tomonzsum"}),
         St(413, {"np"}, {"tomobins"}),
         St(414, {"plt"}, {"fig"}),
         St(415, {"brightdf", "plt", "tomobins", "tomocut"}, {}),
         St(416, {"plt", "tomonzsum", "zgrid"}, {}),
         St(417, {"plt"}, {}),
         St(418, {"plt"}, {}),
         St(419, {"plt"}, {}) >>,
      << Del(439, {"df"}),
         Del(440, {"data"}) >>,
      << St(466, {"GCRCatalogs"}, {"cat2"}) >>,
      << St(477, {"cat2"}, {"data2"}) >>,
      << St(496, {"data2"}, {"fz_redshift"}),
         St(497, {"data2"}, {"fz_photoz_mask"}),
         St(498, {"data2"}, {"fz_photoz_mode"}),
         St(499, {"data2"}, {"fz_mag_i_photoz"}),
         St(500, {"fz_redshift"}, {}),
         St(501, {"fz_photoz_mode"}, {}),
         St(502, {"fz_photoz_mask", "fz_redshift"}, {"fz_redshift"}),
         St(503, {"fz_mag_i_photoz", "fz_photoz_mask"}, {"fz_mag_i_photoz"}),
         St(504, {"fz_redshift"}, {}) >>,
      << St(522, {"data2", "fz_mag_i_photoz", "fz_photoz_mode", "fz_redshift"}, {"pzdict"}),
         St(524, {"pd", "pzdict"}, {"fz_df"}),
         St(525, {"data2", "fz_df"}, {}) >>,
      << St(536, {"fz_df"}, {}) >>,
      << St(547, {"fz_df", "magcut"}, {"brightmask"}),
         St(548, {"brightmask", "fz_df"}, {"fz_brightdf"}),
         St(550, {"plt"}, {"fig"}),
         St(551, {"plt"}, {"fig"}),
         St(552, {"fz_df", "plt"}, {}),
         St(553, {"fz_brightdf", "magcut", "plt"}, {}),
         St(554, {"plt"}, {}),
         St(555, {"plt"}, {}),
         St(556, {"plt"}, {}),
         St(557, {"plt"}, {}),
         St(558, {"plt"}, {}),
         St(560, {"plt"}, {"fig"}),
         St(561, {"fz_df", "plt"}, {}),
         St(562, {"fz_brightdf", "magcut", "plt"}, {}),
         St(563, {"plt"}, {}),
         St(564, {"plt"}, {}),
         St(565, {"plt"}, {}),
         St(566, {"plt"}, {}),
         St(567, {"plt"}, {}) >>,
      << St(589, {"cat2"}, {}),
         St(590, {"cat2"}, {"fz_zgrid"}) >>,
      << St(601, {"plt"}, {"ax", "fig"}),
         St(602, {"ax", "fz_df", "fz_zgrid"}, {"ax_this", "l", "pdf", "z_mean", "z_peak"}) >>,
      << St(629, {"plt"}, {"fig"}),
         St(630, {"fz_brightdf", "np"}, {"nzsum"}),
         St(631, {"np"}, {"szbins"}),
         St(632, {"fz_brightdf", "plt", "szbins"}, {}),
         St(633, {"fz_zgrid", "magcut", "nzsum", "plt"}, {}),
         St(634, {"plt"}, {}),
         St(635, {"plt"}, {}),
         St(636, {"plt"}, {}),
         St(637, {"plt"}, {}) >>,
      << St(655, {"fz_brightdf"}, {"fztomocut"}),
         St(656, {"fz_brightdf", "fztomocut", "np"}, {"fz_tomonzsum"}),
         St(657, {"np"}, {"tomobins"}),
         St(658, {"plt"}, {"fig"}),
         St(659, {"fz_brightdf", "fztomocut", "plt", "tomobins"}, {}),
         St(660, {"fz_tomonzsum", "fz_zgrid", "plt"}, {}),
         St(661, {"plt"}, {}),
         St(662, {"plt"}, {}),
         St(664, {"plt"}, {}) >>,
      << St(675, {"fz_brightdf"}, {"fztomocut"}),
         St(676, {"fz_brightdf", "fztomocut", "np"}, {"fz_tomonzsum"}),
         St(677, {"np"}, {"tomobins"}),
         St(678, {"plt"}, {"fig"}),
         St(679, {"fz_brightdf", "fztomocut", "plt", "tomobins"}, {}),
         St(680, {"fz_tomonzsum", "fz_zgrid", "plt"}, {}),
         St(681, {"plt"}, {}),
         St(682, {"plt"}, {}),
         St(684, {"plt"}, {}) >>
    >>

Notebooks ==
    [ dm_butler_lensing_cuts |-> DmButlerLensingCuts,
      cluster_members |-> ClusterMembers,
      extragalactic_gcr_photoz_catalogs |-> PhotozCatalogs ]

\* a fresh kernel: no name is bound
InitNotebook ==
    /\ notebook \in DOMAIN Notebooks
    /\ nbcell = 1
    /\ nbstmt = 1
    /\ defined = {}
    /\ nbstate = "running"
    /\ undefined = {}
    /\ tract = <<>> /\ num_patches = None /\ pc = "done" /\ patchIt = 1
    /\ df_list = <<>> /\ i = 0 /\ out = <<>> /\ gets = <<>> /\ ret = <<>>
    /\ NoCuts
    /\ NoNz
    /\ NoClusters

Statement == Notebooks[notebook][nbcell][nbstmt]
LastOfCell == nbstmt = Len(Notebooks[notebook][nbcell])
LastCell == nbcell = Len(Notebooks[notebook])

\* a statement whose names are all bound runs, and the next statement of the
\* cell, or the first of the next cell, is the one to run
RunStatement ==
    /\ nbstate = "running"
    /\ Statement.reads \subseteq defined
    /\ defined' = (defined \cup Statement.binds) \ Statement.dels
    /\ IF ~LastOfCell
       THEN nbstmt' = nbstmt + 1 /\ UNCHANGED <<nbcell, nbstate>>
       ELSE IF ~LastCell
            THEN nbcell' = nbcell + 1 /\ nbstmt' = 1 /\ UNCHANGED nbstate
            ELSE nbstate' = "finished" /\ UNCHANGED <<nbcell, nbstmt>>
    /\ UNCHANGED <<notebook, undefined>>

\* a statement that reads an unbound name raises NameError, which ends the
\* cell
RaiseNameError ==
    /\ nbstate = "running"
    /\ ~(Statement.reads \subseteq defined)
    /\ nbstate' = "NameError"
    /\ undefined' =
          undefined \cup {<<Statement.line, Statement.reads \ defined>>}
    /\ UNCHANGED <<notebook, nbcell, nbstmt, defined>>

\* after an error the reader may go on with the cell below
RunNextCell ==
    /\ nbstate = "NameError"
    /\ ~LastCell
    /\ nbcell' = nbcell + 1
    /\ nbstmt' = 1
    /\ nbstate' = "running"
    /\ UNCHANGED <<notebook, defined, undefined>>

NotebookRest == UNCHANGED <<readVars, cutVars, nzVars, pzVars, clVars>>

NextNotebook ==
    \/ (RunStatement /\ NotebookRest)
    \/ (RaiseNameError /\ NotebookRest)
    \/ (RunNextCell /\ NotebookRest)

SpecNotebook == InitNotebook /\ [][NextNotebook]_vars

(***************************************************************************)
(* The cluster-member cells (dm_butler_lensing_cuts.ipynb, lines 341-575)  *)
(***************************************************************************)
MaxClusters == 4
MaxSatellites == 2

\* the 1e14 of 'halo_mass > 1e14', halo masses counted in units of 1e13
HaloMassCut == Num(10)

\* x - y of two floats
SubF(x, y) ==
    CASE isnan(x) \/ isnan(y) -> NaN
      [] isinf(x) /\ isinf(y) -> IF x.n = y.n THEN NaN ELSE x
      [] isinf(x) -> x
      [] isinf(y) -> [y EXCEPT !.n = -y.n]
      [] OTHER -> Fin(x.n * y.d - y.n * x.d, x.d * y.d)

\* one galaxy of the catalog; ra tells the galaxies apart
Galaxy(k, h, central, mag, mass, z) ==
    [ ra |-> Num(k), dec |-> Num(0), mag_r |-> mag, halo_id |-> h,
      is_central |-> central, halo_mass |-> mass, redshift |-> z,
      position_x |-> Num(k), position_y |-> Num(0),
      velocity_x |-> Num(0), velocity_y |-> Num(0) ]

\* the central of halo 10 * h: massive and near, or too faint for
\* galaxy_data, or with a mass or a redshift on the bound of its filter
CentralKinds == {"massive", "faint", "light", "far"}
Central(h, kind) ==
    Galaxy(h, 10 * h, TRUE,
           IF kind = "faint" THEN Num(20) ELSE Num(18),
           IF kind = "light" THEN HaloMassCut ELSE Num(20),
           IF kind = "far" THEN Fin(2, 10) ELSE Fin(1, 10))

\* a satellite of halo 10 or 20, of a magnitude below 19 or equal to 19, or
\* without one
SatelliteKinds == {10, 20} \X {Num(18), Num(19), NaN}
Satellite(k, kind) == Galaxy(k, kind[1], FALSE, kind[2], Num(20), Fin(1, 10))

\* 'mag_r < 19'
MagFilterInclusive(g) == LeF(g.mag_r, Num(19))

\* 'mag_r < 19'
MagFilter(g) == LtF(g.mag_r, Num(19))

\* 'is_central', 'halo_mass > 1e14', 'redshift < 0.2'
ClusterFilter(g) ==
    /\ g.is_central
    /\ GtF(g.halo_mass, HaloMassCut)
    /\ LtF(g.redshift, Fin(2, 10))

\* gc.get_quantities(columns, filters=...): the named columns of the rows
\* that pass every filter (kept is those rows, in catalog order)
get_quantities(kept, names) ==
    [k \in DOMAIN kept |-> [c \in names |-> kept[k][c]]]

GalaxyColumns(pass) ==
    IF pass = 1 THEN {"ra", "dec", "mag_r", "halo_id"}
    ELSE {"ra", "dec", "mag_r", "halo_id", "position_x", "position_y",
          "velocity_x", "velocity_y"}

ClusterColumns(pass) ==
    IF pass = 1 THEN {"ra", "dec", "halo_mass", "halo_id"}
    ELSE {"ra", "dec", "halo_mass", "halo_id", "position_x", "position_y"}

\* the decimal digits of a natural number
RECURSIVE Digits(_)
Digits(n) == IF n < 10 THEN <<n>> ELSE Append(Digits(n \div 10), n % 10)

\* '{}'.format(n) of an integer: its sign and its decimal digits
Format(n) ==
    IF n < 0 THEN [neg |-> TRUE, digits |-> Digits(-n)]
    ELSE [neg |-> FALSE, digits |-> Digits(n)]

RECURSIVE DigitsValue(_)
DigitsValue(ds) ==
    IF ds = <<>> THEN 0
    ELSE 10 * DigitsValue(SubSeq(ds, 1, Len(ds) - 1)) + ds[Len(ds)]

\* the integer literal GCRQuery reads back from the query string
Parse(text) ==
    IF text.neg THEN -DigitsValue(text.digits) ELSE DigitsValue(text.digits)

\* GCRQuery('halo_id == <text>').filter(table): a new table of the rows of
\* table whose halo_id equals the literal
QueryFilter(text, table) ==
    SelectSeq(table, LAMBDA g : g.halo_id = Parse(text))

\* (19 - members['mag_r']) * 8
MarkerSizes(table) ==
    [k \in DOMAIN table |-> MulF(Num(8), SubF(Num(19), table[k].mag_r))]

\* if (i >= 3), one iteration later
LoopBreaksLate(idx) == idx > 3

\* if (i >= 3)
LoopBreaks(idx) == idx >= 3

\* the catalog holds up to MaxClusters centrals, all massive and near but
\* at most one, followed by up to MaxSatellites satellites
InitClusters ==
    /\ \E n \in 0..MaxClusters : \E j \in 0..n : \E kind \in CentralKinds :
       \E sats \in SeqsUpTo(SatelliteKinds, MaxSatellites) :
          gc = [h \in 1..n |-> Central(h, IF h = j THEN kind ELSE "massive")]
               \o [k \in 1..Len(sats) |-> Satellite(n + k, sats[k])]
    /\ galaxy_data = <<>>
    /\ cluster_data = <<>>
    /\ cluster_i = 0
    /\ members = <<>>
    /\ scatters = <<>>
    /\ clcell = "read"
    /\ clpass = 1
    /\ tract = <<>> /\ num_patches = None /\ pc = "done" /\ patchIt = 1
    /\ df_list = <<>> /\ i = 0 /\ out = <<>> /\ gets = <<>> /\ ret = <<>>
    /\ NoCuts
    /\ NoNz
    /\ NoNotebook

\* lines 447-449 and 511-513
ReadCatalog ==
    /\ clcell = "read"
    /\ galaxy_data' = get_quantities(SelectSeq(gc, MagFilter), GalaxyColumns(clpass))
    /\ cluster_data' =
          get_quantities(SelectSeq(gc, ClusterFilter), ClusterColumns(clpass))
    /\ clcell' = "table"
    /\ UNCHANGED <<gc, cluster_i, members, scatters, clpass>>

\* lines 472-473 and 524-525: the table is made and enumerated from 0
LoopBegin ==
    /\ clcell = "table"
    /\ cluster_i' = 0
    /\ clcell' = "loop"
    /\ UNCHANGED <<gc, galaxy_data, cluster_data, members, scatters, clpass>>

\* lines 474-475 and 526-527
LoopBreak ==
    /\ clcell = "loop"
    /\ cluster_i < Len(cluster_data)
    /\ LoopBreaks(cluster_i)
    /\ clcell' = "show"
    /\ UNCHANGED <<gc, galaxy_data, cluster_data, cluster_i, members,
                   scatters, clpass>>

\* lines 476-489 and 528-542: the members of the next cluster are plotted
PlotCluster ==
    /\ clcell = "loop"
    /\ cluster_i < Len(cluster_data)
    /\ ~LoopBreaks(cluster_i)
    /\ LET cluster == cluster_data[cluster_i + 1]
           found == QueryFilter(Format(cluster.halo_id), galaxy_data)
       IN  /\ members' = found
           /\ scatters' =
                 Append(scatters,
                        [ pass |-> clpass,
                          halo_id |-> cluster.halo_id,
                          x |-> [k \in DOMAIN found |->
                                    IF clpass = 1 THEN found[k].ra
                                    ELSE found[k].position_x],
                          s |-> MarkerSizes(found),
                          members |-> found ])
    /\ cluster_i' = cluster_i + 1
    /\ UNCHANGED <<gc, galaxy_data, cluster_data, clcell, clpass>>

\* the table has no further row
LoopExhausted ==
    /\ clcell = "loop"
    /\ cluster_i = Len(cluster_data)
    /\ clcell' = "show"
    /\ UNCHANGED <<gc, galaxy_data, cluster_data, cluster_i, members,
                   scatters, clpass>>

\* lines 490 and 543: plt.show(), and the cells of lines 511-543 follow the
\* first pass
Show ==
    /\ clcell = "show"
    /\ IF clpass = 1
       THEN clcell' = "read" /\ clpass' = 2
       ELSE clcell' = "done" /\ UNCHANGED clpass
    /\ UNCHANGED <<gc, galaxy_data, cluster_data, cluster_i, members,
                   scatters>>

ClustersRest == UNCHANGED <<readVars, cutVars, nzVars, pzVars, nbVars>>

NextClusters ==
    \/ (ReadCatalog /\ ClustersRest)
    \/ (LoopBegin /\ ClustersRest)
    \/ (LoopBreak /\ ClustersRest)
    \/ (PlotCluster /\ ClustersRest)
    \/ (LoopExhausted /\ ClustersRest)
    \/ (Show /\ ClustersRest)

SpecClusters == InitClusters /\ [][NextClusters]_vars

(***************************************************************************)
(* Properties of read_tract (specification Spec).                          *)
(***************************************************************************)
\* the indices of the patches the loop has been through
Visited == 1..(patchIt - 1)

\* the patches with data, in tract order
WithData == SelectSeq(tract, HasData)

\* the first n entries of a sequence
Take(s, n) == SubSeq(s, 1, IF n < Len(s) THEN n ELSE Len(s))

\* the rows of the patches in ps, one patch after the other
RowsOf(ps) == Concat([j \in DOMAIN ps |-> PatchData(ps[j])])

\* the printed NoResults exceptions, as the patches they name, in order
IsNoResults(e) == e.kind = "NoResults"
LoggedSkips ==
    LET es == SelectSeq(out, IsNoResults) IN [j \in DOMAIN es |-> es[j].patch]

\* the visited patches without data, in order
IsSkipped(p) == ~HasData(p)
SkippedSoFar ==
    LET ps == SelectSeq(SubSeq(tract, 1, patchIt - 1), IsSkipped)
    IN  [j \in DOMAIN ps |-> ps[j].index]

\* a patch that has data and whose catalogs are not as lines 147-160 expect:
\* a column those lines read is missing, or the forced and the merged catalog
\* differ in length
Broken(patch) ==
    /\ HasData(patch)
    /\ \/ patch.forced_columns # ForcedColumns
       \/ patch.merged_columns # MergedColumns \cup {"id"}
       \/ Len(patch.forced) # Len(patch.merged)

\* C1: whatever patches raise NoResults, read_tract is not aborted, and the
\* table it returns holds the rows of the patches that have data, up to the
\* num_patches limit (a limit of at least 1), and no row of a skipped patch.
C1_SkipAndContinue ==
    (\A q \in DOMAIN tract : ~Broken(tract[q])) =>
        /\ pc # "ValueError"
        /\ (pc = "done" /\ num_patches # <<0>>) =>
                ret = RowsOf(Take(WithData, num_patches[1]))

\* C4: the SNR column is flux / flux-error in every row, and NaN, never an
\* infinity, where the flux-error is zero or the flux or flux-error is NaN;
\* a row with zero flux-error does not pass SNR >= 10.
C4_SnrNaNOnZeroError ==
    \A j \in DOMAIN df_list : \A r \in DOMAIN df_list[j] :
        LET f == df_list[j][r].i_modelfit_CModel_instFlux
            e == df_list[j][r].i_modelfit_CModel_instFluxErr
            s == df_list[j][r].i_modelfit_CModel_SNR
        IN  /\ ~isinf(s)
            /\ (isnan(f) \/ isnan(e) \/ EqF(e, Num(0))) => isnan(s)
            /\ EqF(e, Num(0)) => ~GeF(s, Num(10))
            /\ (s.k = "fin" /\ f.k = "fin" /\ e.k = "fin") =>
                    s.n * e.n * f.d = f.n * e.d * s.d

\* C10: every patch whose read raised NoResults has its exception printed
\* before the next patch is taken: the printed exceptions are, in order, the
\* patches skipped so far, one entry for each.
C10_SkipsLogged == LoggedSkips = SkippedSoFar

\* a skipped patch was logged and a later patch was then read and appended
C10_Witness ==
    /\ pc = "done"
    /\ \E q1, q2 \in Visited :
          q1 < q2 /\ ~HasData(tract[q1]) /\ HasData(tract[q2])
    /\ Len(LoggedSkips) >= 1

\* C11: a patch that has data and a missing column, or a forced catalog of
\* another length than the merged one, stops read_tract: the loop never goes
\* past such a patch, and no table is returned once it has been reached.
C11_OnlyNoResultsSwallowed ==
    \A q \in DOMAIN tract :
        Broken(tract[q]) =>
            /\ q \notin Visited
            /\ pc \in {"KeyError", "ValueError"} => ret = <<>>

\* the patches read_tract has asked the butler for
Requested == {gets[k][2] : k \in DOMAIN gets}

\* C13: with num_patches = n >= 1, read_tract asks the butler for at most n
\* patches of the tract, whether or not some of them have no data.
C13_AtMostNumPatchesRequested ==
    (pc # "call" /\ num_patches[1] >= 1) =>
        Cardinality(Requested) <= num_patches[1]

\* the columns read_tract appends to the merged ones
Appended ==
    { "i_modelfit_CModel_instFlux", "i_modelfit_CModel_instFluxErr",
      "i_mag_CModel", "i_mag_err_CModel", "i_modelfit_CModel_SNR",
      "ext_shapeHSM_HsmShapeRegauss_abs_e" }

\* C14: every row of a returned table has all the merged and all the six
\* appended columns (the columns are equally long), and is row r of the
\* merged catalog of a patch with the values computed from row r of the
\* forced catalog of that patch.
C14_RowsAligned ==
    pc = "done" =>
        \A k \in DOMAIN ret :
            /\ DOMAIN ret[k] = MergedColumns \cup {"id"} \cup Appended
            /\ \E q \in DOMAIN tract :
               \E r \in DOMAIN tract[q].merged \cap DOMAIN tract[q].forced :
                  /\ tract[q].merged[r].id = <<q, r>>
                  /\ ret[k] = DeriveRow(tract[q].merged[r], tract[q].forced[r],
                                        tract[q].calib[r])

\* C16: in every row read_tract builds, abs_e is NaN when e1 or e2 is NaN,
\* whatever the other component is, and SNR is NaN when the flux or the
\* flux-error is NaN.
C16_NaNPropagates ==
    \A j \in DOMAIN df_list : \A r \in DOMAIN df_list[j] :
        LET row == df_list[j][r]
        IN  /\ (\/ isnan(row.ext_shapeHSM_HsmShapeRegauss_e1)
                \/ isnan(row.ext_shapeHSM_HsmShapeRegauss_e2)) =>
                    isnan(row.ext_shapeHSM_HsmShapeRegauss_abs_e)
            /\ (\/ isnan(row.i_modelfit_CModel_instFlux)
                \/ isnan(row.i_modelfit_CModel_instFluxErr)) =>
                    isnan(row.i_modelfit_CModel_SNR)

\* C19: for a tract in which no patch fails otherwise than with NoResults,
\* read_tract raises nothing, and what it returns is a table.
C19_CompletesOnNoResultsOnly ==
    (\A q \in DOMAIN tract : ~HasData(tract[q]) \/ ~Broken(tract[q])) =>
        /\ pc \notin {"KeyError", "ValueError"}
        /\ pc = "done" => ret = RowsOf(SelectSeq(SubSeq(tract, 1, patchIt - 1),
                                                 HasData))

\* the place of a dataset in the try block
DatasetAt(name) == CHOOSE j \in DOMAIN Datasets : Datasets[j] = name

\* C20: no dataset of a patch is requested twice, the requests follow the
\* tract's patch order and, within a patch, the order of the try block, and
\* the loop makes at most len(tract) iterations.
C20_NoRetryInOrder ==
    /\ \A a, b \in DOMAIN gets :
          a < b =>
            /\ gets[a] # gets[b]
            /\ gets[a][2] <= gets[b][2]
            /\ gets[a][2] = gets[b][2] =>
                    DatasetAt(gets[a][1]) < DatasetAt(gets[b][1])
    /\ patchIt <= Len(tract) + 1
    /\ Requested \subseteq DOMAIN tract

\* a patch whose second dataset is missing was asked for once and left, and
\* the next patch was then read to the end
C20_Witness ==
    /\ pc = "done"
    /\ Len(tract) = 2
    /\ tract[1].has = {Datasets[1], Datasets[3]}
    /\ gets = << <<Datasets[1], 1>>, <<Datasets[2], 1>>,
                 <<Datasets[1], 2>>, <<Datasets[2], 2>>, <<Datasets[3], 2>> >>

\* C21: for num_patches = n >= 0, 0 included, and a tract with k patches
\* that have data, the table read_tract returns is the concatenation of the
\* tables of the first min(n, k) patches with data, in tract order.
C21_ReturnsFirstMinPatches ==
    ((\A q \in DOMAIN tract : ~Broken(tract[q])) /\ pc = "done") =>
        ret = RowsOf(Take(WithData, num_patches[1]))

\* the patches whose table was appended, in order, as printed at line 164
IsPatchLine(e) == e.kind = "patch"
AppendedPatches ==
    LET es == SelectSeq(out, IsPatchLine) IN [j \in DOMAIN es |-> es[j].patch]

\* the visited patches all three datasets of which the butler holds
HoldsAll(p) == \A j \in DOMAIN Datasets : Datasets[j] \in p.has
ObtainedSoFar ==
    LET ps == SelectSeq(SubSeq(tract, 1, patchIt - 1), HoldsAll)
    IN  [j \in DOMAIN ps |-> ps[j].index]

\* C22: the patches that have contributed a table are exactly the visited
\* patches all three datasets of which were obtained; a patch for which one
\* butler.get raised NoResults has no row in df_list or in the result, and
\* every row there has all the merged and all the appended columns.
C22_PatchAtomicity ==
    /\ AppendedPatches = ObtainedSoFar
    /\ Len(df_list) = Len(AppendedPatches)
    /\ \A j \in DOMAIN df_list :
          /\ Len(df_list[j]) \in
                {Len(tract[AppendedPatches[j]].merged),
                 Len(tract[AppendedPatches[j]].forced)}
          /\ \A r \in DOMAIN df_list[j] :
                /\ DOMAIN df_list[j][r] = MergedColumns \cup {"id"} \cup Appended
                /\ df_list[j][r].id \in {<<AppendedPatches[j], r>>, NaN}
    /\ pc = "done" => Len(ret) = Len(Concat(df_list))

\* a patch whose forced catalog and calibration were obtained and whose
\* reference catalog was not has left no row, and a later patch was appended
C22_Witness ==
    /\ pc = "done"
    /\ \E q1, q2 \in Visited :
          /\ q1 < q2
          /\ tract[q1].has = {Datasets[1], Datasets[2]}
          /\ Len(tract[q1].merged) > 0
          /\ q2 \in {AppendedPatches[j] : j \in DOMAIN AppendedPatches}
    /\ Len(ret) > 0

(***************************************************************************)
(* Properties of the selection cells (specification SpecCuts).             *)
(***************************************************************************)
\* the lensing selection, written out: detect_isPrimary, the nine flags false
\* and the six thresholds
PassesAll(r) ==
    /\ r.detect_isPrimary = TRUE
    /\ r.deblend_skipped = FALSE
    /\ r.base_PixelFlags_flag_edge = FALSE
    /\ r.base_PixelFlags_flag_interpolatedCenter = FALSE
    /\ r.base_PixelFlags_flag_saturatedCenter = FALSE
    /\ r.base_PixelFlags_flag_crCenter = FALSE
    /\ r.base_PixelFlags_flag_bad = FALSE
    /\ r.base_PixelFlags_flag_suspectCenter = FALSE
    /\ r.base_PixelFlags_flag_clipped = FALSE
    /\ r.ext_shapeHSM_HsmShapeRegauss_flag = FALSE
    /\ GeF(r.i_modelfit_CModel_SNR, Num(10))
    /\ GeF(r.ext_shapeHSM_HsmShapeRegauss_resolution, Fin(3, 10))
    /\ LtF(r.ext_shapeHSM_HsmShapeRegauss_abs_e, Num(2))
    /\ LeF(r.ext_shapeHSM_HsmShapeRegauss_sigma, Fin(2, 5))
    /\ LtF(r.i_mag_CModel, Fin(49, 2))
    /\ LtF(r.base_Blendedness_abs, BlendednessCut)

MaskBuilt == cell \in {"plot", "done"}

Ids(table) == {table[r].id : r \in DOMAIN table}

\* a row with its detect_isPrimary entry put aside
SansPrimary(r) == [c \in DOMAIN r \ {"detect_isPrimary"} |-> r[c]]

\* the j-th smallest member of a set of integers
Nth(S, j) == CHOOSE x \in S : Cardinality({y \in S : y < x}) = j - 1

\* C2: once the mask is built, a row's mask entry is true iff the row
\* satisfies every predicate of the list; data[mask] holds exactly the rows
\* that satisfy them all, and no other row.
C2_MaskIsConjunction ==
    /\ MaskBuilt =>
          /\ Len(mask) = Len(data_base)
          /\ \A r \in DOMAIN mask :
                /\ mask[r] <=> PassesAll(data_base[r])
                /\ mask[r] <=> PassesAll(data[r])
    /\ cell = "done" =>
          /\ Ids(selected) = {data_base[r].id : r \in
                                {q \in DOMAIN data_base : PassesAll(data_base[q])}}
          /\ Len(selected) = Cardinality(Ids(selected))

\* the mask is built and filters a table with rows on both sides of it
C2_Witness ==
    /\ cell = "done"
    /\ \E r \in DOMAIN mask : mask[r]
    /\ \E r \in DOMAIN mask : ~mask[r] /\ data_base[r].detect_isPrimary
    /\ Len(selected) >= 1

\* C3: building the mask leaves every column of data, detect_isPrimary
\* included, with the values it had before the step.
C3_ColumnsUntouched ==
    cell \in {"cuts", "plot", "done"} => data = data_base

\* the table kept holds the rows of table whose mask entry is true, in the
\* order of table, each row with its values in every column
KeepsInOrder(kept, table, m) ==
    LET on == {r \in DOMAIN table : m[r]}
    IN  /\ Len(m) = Len(table)
        /\ Len(kept) = Cardinality(on)
        /\ \A j \in DOMAIN kept :
              /\ kept[j] = table[Nth(on, j)]
              /\ DOMAIN kept[j] = DOMAIN table[Nth(on, j)]

\* C8: data[mask] keeps the rows whose mask entry is true, in the order of the
\* input, each with its values in every column and with the same columns,
\* for the baseline NaN filter (whose mask is true for the rows without a NaN
\* in the three columns it tests) and for the bright-sample filter.
C8_FilterKeepsOrderAndValues ==
    /\ cell = "primary" =>
          /\ KeepsInOrder(data, data_read, base_mask)
          /\ \A r \in DOMAIN data_read :
                base_mask[r] <=>
                  ~(\/ isnan(data_read[r].i_modelfit_CModel_instFlux)
                    \/ isnan(data_read[r].ext_shapeHSM_HsmShapeRegauss_resolution)
                    \/ isnan(data_read[r].ext_shapeHSM_HsmShapeRegauss_e1))
    /\ zcell \in {"nzsum", "tomo", "tomo2", "done", "ValueError"} =>
          /\ KeepsInOrder(brightdf, df, brightmask)
          /\ \A r \in DOMAIN df :
                brightmask[r] <=> LtF(df[r].mag_i_photoz, magcut)

\* a table of three rows, one of them with a NaN, filtered to the other two
C8_Witness ==
    /\ cell = "primary"
    /\ Len(data_read) = 3
    /\ Len(data) = 2
    /\ ~base_mask[2]
    /\ data[1] = data_read[1] /\ data[2] = data_read[3]

\* the cuts applied to one row in the order of a list, from a first entry m
RECURSIVE FoldCuts(_, _, _)
FoldCuts(m, cuts, r) ==
    IF cuts = <<>> THEN m
    ELSE FoldCuts(IAnd(m, EvalCut(Head(cuts), r)), Tail(cuts), r)

Reverse(s) == [j \in DOMAIN s |-> s[Len(s) + 1 - j]]

\* C9: the baseline filter is applied before any lensing cut is evaluated;
\* every cut is evaluated on the baseline-filtered table, which no cut
\* narrows; the mask after k cuts is the conjunction of detect_isPrimary and
\* those k cuts on that table, so the final mask is one conjunction, the
\* same with the cuts taken in the opposite order.
C9_BaselineFirstThenConjunction ==
    /\ cell \in {"primary", "cuts", "plot", "done"} =>
          /\ Len(data) = Len(data_base)
          /\ Ids(data_base) =
                {data_read[r].id : r \in {q \in DOMAIN data_read : base_mask[q]}}
          /\ \A r \in DOMAIN data :
                /\ SansPrimary(data[r]) = SansPrimary(data_base[r])
                /\ ~isnan(data[r].i_modelfit_CModel_instFlux)
                /\ ~isnan(data[r].ext_shapeHSM_HsmShapeRegauss_resolution)
                /\ ~isnan(data[r].ext_shapeHSM_HsmShapeRegauss_e1)
    /\ cell = "baseline" => mask = <<>> /\ stmt = 1
    /\ cell \in {"cuts", "plot", "done"} =>
          /\ Len(mask) = Len(data_base)
          /\ \A r \in DOMAIN mask :
                mask[r] <=>
                    /\ data_base[r].detect_isPrimary
                    /\ \A j \in 1..(stmt - 1) : EvalCut(Cuts[j], data_base[r])
    /\ MaskBuilt =>
          \A r \in DOMAIN mask :
              mask[r] = FoldCuts(data_base[r].detect_isPrimary, Reverse(Cuts),
                                 data_base[r])

\* the baseline filter dropped a row, and the cuts then ran on the rest
C9_Witness ==
    /\ cell = "done"
    /\ Len(data_base) < Len(data_read)
    /\ \E r \in DOMAIN mask : mask[r]
    /\ \E r \in DOMAIN mask : ~mask[r]

\* the thresholds of the cuts on measured properties
Thresholds ==
    [ i_modelfit_CModel_SNR |-> Num(10),
      ext_shapeHSM_HsmShapeRegauss_resolution |-> Fin(3, 10),
      ext_shapeHSM_HsmShapeRegauss_abs_e |-> Num(2),
      ext_shapeHSM_HsmShapeRegauss_sigma |-> Fin(2, 5),
      i_mag_CModel |-> Fin(49, 2),
      base_Blendedness_abs |-> BlendednessCut ]

\* the cuts that keep a row on the threshold, and those with a lower bound
Inclusive ==
    { "i_modelfit_CModel_SNR", "ext_shapeHSM_HsmShapeRegauss_resolution",
      "ext_shapeHSM_HsmShapeRegauss_sigma" }
LowerBounded ==
    {"i_modelfit_CModel_SNR", "ext_shapeHSM_HsmShapeRegauss_resolution"}

\* the row is on the accepted side of the threshold of column c, off it
Inside(r, c) ==
    IF c \in LowerBounded THEN GtF(r[c], Thresholds[c])
    ELSE LtF(r[c], Thresholds[c])

\* the row is primary and none of its flags is set
FlagsPass(r) ==
    /\ r.detect_isPrimary = TRUE
    /\ \A j \in DOMAIN FlagColumns : r[FlagColumns[j]] = FALSE

\* C23: a row exactly on the threshold of one cut that satisfies every other
\* predicate is kept when the cut is SNR >= 10, resolution >= 0.3 or
\* sigma <= 0.4, and dropped when it is abs_e < 2, i_mag_CModel < 24.5 or
\* blendedness < 10^(-0.375).
C23_ThresholdBoundaries ==
    MaskBuilt =>
        \A r \in DOMAIN data_base : \A c \in DOMAIN Thresholds :
            ( /\ FlagsPass(data_base[r])
              /\ EqF(data_base[r][c], Thresholds[c])
              /\ \A o \in DOMAIN Thresholds \ {c} : Inside(data_base[r], o) )
            => (mask[r] <=> c \in Inclusive)

\* a row on the sigma threshold is kept, in a table that also has a row off it
C23_Witness ==
    /\ cell = "done"
    /\ \E r \in DOMAIN mask :
          /\ mask[r]
          /\ EqF(data_base[r].ext_shapeHSM_HsmShapeRegauss_sigma, Fin(2, 5))
    /\ \E r \in DOMAIN mask :
          /\ mask[r]
          /\ LtF(data_base[r].ext_shapeHSM_HsmShapeRegauss_sigma, Fin(2, 5))
    /\ Len(selected) >= 2

\* the row has NaN in a column a cut on measured properties tests
HasNaN(r) == \E c \in DOMAIN Thresholds : isnan(r[c])

\* C24: a row whose SNR, resolution, abs_e, sigma, i_mag_CModel or
\* blendedness is NaN has a false mask entry and is not among the selected
\* rows, also when the baseline mask does not test the column.
C24_NoNaNRowSelected ==
    /\ MaskBuilt =>
          \A r \in DOMAIN data_base : HasNaN(data_base[r]) => ~mask[r]
    /\ cell = "done" =>
          \A r \in DOMAIN data_read :
              HasNaN(data_read[r]) => data_read[r].id \notin Ids(selected)

\* a primary row with NaN sigma passed the baseline mask and was rejected
C24_Witness ==
    /\ cell = "done"
    /\ \E r \in DOMAIN data_base :
          /\ isnan(data_base[r].ext_shapeHSM_HsmShapeRegauss_sigma)
          /\ FlagsPass(data_base[r])
          /\ ~mask[r]
    /\ Len(selected) >= 1

\* the first statement of the lensing-cut cell that names a column the table
\* does not have: 0 for line 253, j for the j-th "mask &="
FirstAbsent ==
    IF "detect_isPrimary" \notin columns THEN 0
    ELSE CHOOSE j \in DOMAIN Cuts :
            /\ Cuts[j].col \notin columns
            /\ \A h \in 1..(j - 1) : Cuts[h].col \in columns

\* C12: when the lensing-cut cell raises for a missing column, it does so at
\* the first statement that names the column, and every column of data,
\* detect_isPrimary included, holds what it held when the cell began.
C12_NoCorruptionOnMissingColumn ==
    (cell = "KeyError" /\ "ext_shapeHSM_HsmShapeRegauss_resolution" \in columns)
        => /\ stmt = FirstAbsent
           /\ data = data_base

\* C18: a second run of the lensing-cut cell on the table the first run
\* left builds the mask the first run built, and in every row SNR and abs_e
\* are what the derivations give when computed again from the row's inputs.
C18_SecondRunSameMask ==
    /\ (run = 2 /\ MaskBuilt) => mask = mask_first
    /\ \A r \in DOMAIN data :
          /\ data[r].i_modelfit_CModel_SNR =
                DivF(data[r].i_modelfit_CModel_instFlux,
                     data[r].i_modelfit_CModel_instFluxErr)
          /\ data[r].ext_shapeHSM_HsmShapeRegauss_abs_e =
                HypotF(data[r].ext_shapeHSM_HsmShapeRegauss_e1,
                       data[r].ext_shapeHSM_HsmShapeRegauss_e2)

\* the second run is complete on a table whose detect_isPrimary column the
\* first run overwrote, with a row kept and a primary row rejected
C18_Witness ==
    /\ run = 2
    /\ MaskBuilt
    /\ shares
    /\ \E r \in DOMAIN mask : mask[r]
    /\ \E r \in DOMAIN mask :
          data_base[r].detect_isPrimary /\ ~data[r].detect_isPrimary

(***************************************************************************)
(* Properties of the summed p(z) (specification SpecNz).                   *)
(***************************************************************************)
\* the rows of the bright sample the tomographic cut selects
TomoSelected == Filter(brightdf, tomocut)
TomoSummed == tomonzsum.shape # "unset"
NzSummed == nzsum.shape # "unset"

IsZeroVector(s) ==
    /\ s.shape = "vector"
    /\ Len(s.v) = Len(zgrid)
    /\ \A k \in DOMAIN s.v : s.v[k] = Num(0)

\* the sum of grid point k over rows, NaN if a row is NaN there
RECURSIVE SumAt(_, _)
SumAt(rows, k) ==
    IF rows = <<>> THEN Num(0)
    ELSE LET t == SumAt(Tail(rows), k)
             h == Head(rows).pdf[k]
         IN  IF isnan(t) \/ isnan(h) THEN NaN
             ELSE Fin(h.n * t.d + t.n * h.d, h.d * t.d)

IsSumOf(s, rows) ==
    /\ s.shape = "vector"
    /\ Len(s.v) = Len(zgrid)
    /\ \A k \in DOMAIN s.v : s.v[k] = SumAt(rows, k)

\* C5: the sum over an empty selection is a zero-filled vector of the length
\* of the grid.
C5_EmptySumIsZeroVector ==
    /\ (TomoSummed /\ TomoSelected = <<>>) => IsZeroVector(tomonzsum)
    /\ (NzSummed /\ brightdf = <<>>) => IsZeroVector(nzsum)

\* C6: for every table and sub-mask the aggregate has the length of the grid
\* and is, at every grid point, the sum over the selected rows and no other.
C6_SumOverSelectedRows ==
    /\ TomoSummed => IsSumOf(tomonzsum, TomoSelected)
    /\ NzSummed => IsSumOf(nzsum, brightdf)

\* C7: the sum over a selection of exactly one row is that row's density
\* vector: the same length and the same value at every grid point.
C7_OneRowSumIsTheRow ==
    /\ (TomoSummed /\ Len(TomoSelected) = 1) =>
          /\ tomonzsum.shape = "vector"
          /\ tomonzsum.v = TomoSelected[1].pdf
    /\ (NzSummed /\ Len(brightdf) = 1) =>
          /\ nzsum.shape = "vector"
          /\ nzsum.v = brightdf[1].pdf

\* a tomographic bin that selects one row of a bright sample of several
C7_Witness ==
    /\ TomoSummed
    /\ Len(brightdf) >= 2
    /\ Len(TomoSelected) = 1
    /\ \E k \in DOMAIN tomonzsum.v :
          tomonzsum.v[k] # Num(0) /\ ~isnan(tomonzsum.v[k])

(***************************************************************************)
(* Properties of the cells that build df (specification SpecPz).           *)
(***************************************************************************)
\* the galaxies whose photoz_mask is true
Masked ==
    {g \in DOMAIN quantities.photoz_mask : quantities.photoz_mask[g]}

\* the photo-z columns hold one entry per row where photoz_mask is true, in
\* row order
OnePerMaskedRow ==
    \A name \in PhotozQuantities :
        [j \in DOMAIN quantities[name] |-> quantities[name][j].gal]
            = InOrder(Masked)

\* C15: for a catalog whose photo-z columns hold one entry per masked row in
\* row order, the masked redshift and mag_i_photoz are as long as the
\* photo-z columns, df is built, and every row of df holds the redshift, the
\* magnitude, the point estimates and the pdf of one galaxy; for any catalog,
\* df is not built when the lengths differ.
C15_PhotozMaskAligns ==
    /\ (OnePerMaskedRow /\ pzcell \in {"frame", "built"}) =>
            /\ Len(redshift) = Len(photoz_mode)
            /\ Len(mag_i_photoz) = Len(photoz_mode)
    /\ OnePerMaskedRow => pzcell # "ValueError"
    /\ (OnePerMaskedRow /\ pzcell = "built") =>
            /\ Len(df) = Cardinality(Masked)
            /\ \A r \in DOMAIN df :
                  /\ df[r].specz.gal = InOrder(Masked)[r]
                  /\ df[r].specz.v = GalaxyValue(df[r].specz.gal, "redshift")
                  /\ \A c \in DOMAIN df[r] \ {"index"} :
                        df[r][c].gal = df[r].specz.gal
    /\ Cardinality(Masked) # Len(quantities.photoz_mode) =>
            (pzcell # "built" /\ df = <<>>)

\* df was built for a catalog in which a galaxy without a photo-z precedes
\* two galaxies that have one
C15_Witness ==
    /\ pzcell = "built"
    /\ OnePerMaskedRow
    /\ Len(df) >= 2
    /\ 1 \notin Masked

(***************************************************************************)
(* Properties of the summed p(z), invalid contributions.                   *)
(***************************************************************************)
\* the sum is NaN at every grid point where a summed row's density is NaN
NaNKept(s, rows) ==
    s.shape = "vector" =>
        \A r \in DOMAIN rows : \A k \in DOMAIN rows[r].pdf :
            isnan(rows[r].pdf[k]) => isnan(s.v[k])

\* C17: the summed density is NaN at grid point k when the density of any
\* selected row is NaN at k, and NaN at every grid point when the whole
\* density of a selected row is NaN: no selected row is left out of the sum.
C17_NaNNotSkipped ==
    /\ NzSummed => NaNKept(nzsum, brightdf)
    /\ TomoSummed => NaNKept(tomonzsum, TomoSelected)

\* a row whose density is NaN at the last grid point only was summed with a
\* row whose density is finite
C17_Witness ==
    /\ NzSummed
    /\ Len(brightdf) >= 2
    /\ \E r \in DOMAIN brightdf : isnan(brightdf[r].pdf[GridLen])
    /\ \E r \in DOMAIN brightdf : ~isnan(brightdf[r].pdf[GridLen])
    /\ isnan(nzsum.v[GridLen])
    /\ ~isnan(nzsum.v[1])

(***************************************************************************)
(* Properties of the tomographic slices (specification SpecNz).            *)
(***************************************************************************)
\* the bins (lo, hi] of the two tomographic cells, in cell order
Slices == << <<Fin(4, 10), Fin(6, 10)>>, <<Fin(1, 10), Fin(3, 10)>> >>

\* the rows of df with mag_i_photoz < magcut and lo < zmode <= hi, in order
InSlice(r, b) ==
    /\ LtF(r.mag_i_photoz, magcut)
    /\ GtF(r.zmode, Slices[b][1])
    /\ LeF(r.zmode, Slices[b][2])
SliceRows(b) == Filter(df, [r \in DOMAIN df |-> InSlice(df[r], b)])

\* the index labels of the rows a histogram was drawn from
Labels(series) == [r \in DOMAIN series |-> series[r].index]

\* C25: for each of the bins (0.4, 0.6] and (0.1, 0.3], the histogram of
\* true redshifts is drawn from exactly the rows with mag_i_photoz < magcut
\* and lo < zmode <= hi, the summed p(z) is the sum over the same rows, and
\* no row is in both bins.
C25_TomographicSlices ==
    /\ \A b \in DOMAIN Slices :
          Len(hists) >= b + 1 =>
              Labels(hists[b + 1]) = Labels(Series(SliceRows(b), "specz"))
    /\ \A b \in DOMAIN Slices :
          Len(hists) = b + 1 =>
              IF SliceRows(b) = <<>>
              THEN \A k \in DOMAIN tomonzsum.v : tomonzsum.v[k] = Num(0)
              ELSE IsSumOf(tomonzsum, SliceRows(b))
    /\ Len(hists) >= 3 =>
          {hists[2][r].index : r \in DOMAIN hists[2]}
            \cap {hists[3][r].index : r \in DOMAIN hists[3]} = {}

\* both slices were drawn, each with a row in it, from a table with a row on
\* the upper bound of the first bin
C25_Witness ==
    /\ zcell = "done"
    /\ Len(hists) = 3
    /\ Len(hists[2]) >= 1
    /\ Len(hists[3]) >= 1
    /\ \E r \in DOMAIN df :
          EqF(df[r].zmode, Fin(6, 10)) /\ LtF(df[r].mag_i_photoz, magcut)

(***************************************************************************)
(* Properties of a top-to-bottom run (specification SpecNotebook).         *)
(***************************************************************************)
\* C26: when the cells of a notebook are run once each from top to bottom,
\* every name the statement about to run reads has been bound by an import
\* or by an earlier statement.
C26_NamesDefinedBeforeUse ==
    nbstate = "running" => Statement.reads \subseteq defined

(***************************************************************************)
(* Properties of the cluster-member cells (specification SpecClusters).    *)
(***************************************************************************)
\* the centrals with halo_mass > 1e14 and redshift < 0.2, in catalog order
SelectedCentrals ==
    SelectSeq(gc, LAMBDA g : /\ g.is_central
                             /\ GtF(g.halo_mass, Num(10))
                             /\ LtF(g.redshift, Fin(2, 10)))

\* the ra of the rows of a table, in order
Ras(table) == [k \in DOMAIN table |-> table[k].ra]

\* the ra of the catalog rows with mag_r < 19, all or those of one halo
BrightRas == Ras(SelectSeq(gc, LAMBDA g : LtF(g.mag_r, Num(19))))
BrightRasOf(h) ==
    Ras(SelectSeq(gc, LAMBDA g : LtF(g.mag_r, Num(19)) /\ g.halo_id = h))

\* the calls of plt.scatter one pass of the loop made
Plots(p) == SelectSeq(scatters, LAMBDA e : e.pass = p)
LoopOver(p) == clpass > p \/ (clpass = p /\ clcell \in {"show", "done"})

\* C27: the loop plots exactly the first min(3, n) of the n selected
\* centrals, in table order; the members plotted for each are exactly the
\* rows of galaxy_data (mag_r < 19) with the cluster's halo_id; and
\* galaxy_data stays as it was read.
C27_FirstThreeClusters ==
    /\ \A p \in 1..2 :
          /\ LoopOver(p) =>
                Len(Plots(p)) = IF Len(SelectedCentrals) < 3
                                THEN Len(SelectedCentrals) ELSE 3
          /\ \A k \in DOMAIN Plots(p) :
                /\ k <= Len(SelectedCentrals)
                /\ Plots(p)[k].halo_id = SelectedCentrals[k].halo_id
                /\ Ras(Plots(p)[k].members)
                      = BrightRasOf(SelectedCentrals[k].halo_id)
                /\ Plots(p)[k].x = Ras(Plots(p)[k].members)
    /\ clcell \in {"table", "loop", "show", "done"} =>
          Ras(galaxy_data) = BrightRas

\* both loops are over, four centrals were selected, and a plotted cluster
\* has members that are not all of galaxy_data
C27_Witness ==
    /\ clcell = "done"
    /\ Len(SelectedCentrals) > 3
    /\ \E k \in DOMAIN scatters :
          /\ scatters[k].members # <<>>
          /\ Len(scatters[k].members) < Len(galaxy_data)

\* C28: every marker size given to plt.scatter is strictly positive.
C28_MarkerSizesPositive ==
    \A k \in DOMAIN scatters :
       \A m \in DOMAIN scatters[k].s : GtF(scatters[k].s[m], Num(0))

\* a cluster was plotted with a member, and its halo has a galaxy of
\* mag_r = 19 in the catalog
C28_Witness ==
    \E k \in DOMAIN scatters :
       /\ Len(scatters[k].s) >= 1
       /\ \E g \in DOMAIN gc :
             /\ gc[g].halo_id = scatters[k].halo_id
             /\ EqF(gc[g].mag_r, Num(19))

====
